---- MODULE Spec2Model ----
(***************************************************************************)
(* JSON classification and storage routing of the Intelligent Multi-Modal  *)
(* Storage System: JSONAnalyzer (app/utils/json_analyzer.py) driven by the *)
(* POST /json/upload handler (app/routers/json_routes.py); the media, ZIP  *)
(* and JSON handlers of app/utils/file_utils.py behind POST /upload/       *)
(* (app/routers/upload_router.py); and GET /files                          *)
(* (app/routers/files_router.py).                                          *)
(***************************************************************************)
EXTENDS Integers, Sequences, FiniteSets, Bags, TLC

VARIABLES
    mode,       \* os.getenv("STORAGE_MODE", "local")
    clock,      \* datetime.now() at one-second resolution
    sqlDir,     \* app/storage/databases/sql: data files and .meta.json sidecars
    nosqlDir,   \* app/storage/databases/nosql
    schemaDir,  \* app/storage/internal_databases/schemas
    tempDir,    \* app/storage/temp
    remote,     \* the Cloudinary raw store: folder/public_id -> bytes
    sqlDb,      \* rows inserted through sql_conn (json_data.db)
    nosqlDb,    \* documents inserted through mongo_db
    pc,         \* position of the upload_json handler
    req,        \* the request being handled: filename and content
    response,   \* what the handler last returned to the caller
    last,       \* history of the last handled request (what the store did)
    uploads,    \* number of requests received so far
    cin,        \* classifier input (a file handed to analyze_json_file)
    cout,       \* classifier output for cin
    procs,      \* the upload_json coroutines in flight at the same time
    frame,      \* one upload_json call followed statement by statement
    json_type,  \* what _classify_json_content returned for cin
    mediaDir,   \* storage/images and storage/videos
    listing     \* what GET /files last returned

vars == <<mode, clock, sqlDir, nosqlDir, schemaDir, tempDir, remote, sqlDb,
          nosqlDb, pc, req, response, last, uploads, cin, cout, procs,
          frame, json_type, mediaDir, listing>>

storeVars == <<mode, clock, sqlDir, nosqlDir, schemaDir, tempDir, remote,
               sqlDb, nosqlDb, pc, req, response, last, uploads, procs,
               frame, json_type, mediaDir, listing>>

----------------------------------------------------------------------------
(* Bounds of the model.                                                    *)

MaxNodes == 4      \* JSON values have at most this many nodes
MaxWidth == 2      \* a dict or list has at most this many members
MaxUploads == 2    \* requests received in one behaviour
MaxRows == 11      \* an array of rows has at most this many elements
MaxEntries == 2    \* a ZIP archive has at most this many entries
MaxRequests == 1   \* calls of the file_utils handlers in one behaviour

----------------------------------------------------------------------------
(* JSON values as json.load returns them: a scalar, a dict (its keys in    *)
(* document order, distinct) or a list.                                    *)

ScalarTypes == {"number", "string"}

Keys == {"id", "name", "profile"}

Scalar(t) == [t |-> t, keys |-> <<>>, kids |-> <<>>]

Dict(ks, vs) == [t |-> "dict", keys |-> ks, kids |-> vs]

List(vs) == [t |-> "list", keys |-> <<>>, kids |-> vs]

\* isinstance(x, (dict, list))
IsContainer(x) == x.t \in {"dict", "list"}

RECURSIVE Size(_)
Size(x) ==
    LET RECURSIVE Sum(_)
        Sum(s) == IF s = <<>> THEN 0 ELSE Size(Head(s)) + Sum(Tail(s))
    IN  1 + Sum(x.kids)

\* Sequences of k distinct keys.
KeySeqs(k) ==
    {s \in [1..k -> Keys] : \A i, j \in 1..k : i # j => s[i] # s[j]}

RECURSIVE Values(_)
RECURSIVE Forests(_, _)

\* Member sequences of at most w values with at most n nodes in all.
Forests(n, w) ==
    IF n = 0 \/ w = 0 THEN {<<>>}
    ELSE {<<>>} \cup
         UNION {{<<v>> \o f : f \in Forests(n - Size(v), w - 1)} : v \in Values(n)}

\* JSON values of at most n nodes.
Values(n) ==
    IF n = 0 THEN {}
    ELSE {Scalar(t) : t \in ScalarTypes}
         \cup UNION {{Dict(ks, f) : ks \in KeySeqs(Len(f))} : f \in Forests(n - 1, MaxWidth)}
         \cup {List(f) : f \in Forests(n - 1, MaxWidth)}

\* json.load results of at most n nodes.
JSONValues(n) == Values(n)

----------------------------------------------------------------------------
(* File contents.  A file is text that json.load parses to a value, or     *)
(* text that is not JSON; its size is what os.path.getsize reports.        *)

Garbage == [t |-> "garbage", keys |-> <<>>, kids |-> <<>>]

\* A file of no bytes, as open(path, 'wb') leaves it, and a file in which the
\* bytes of one write are followed by the tail of a longer earlier one.
EmptyFile == [t |-> "empty", keys |-> <<>>, kids |-> <<>>]
TornFile == [t |-> "torn", keys |-> <<>>, kids |-> <<>>]

\* Size classes: "small" is at most 10 MB, "big" is over 10 MB and at most
\* 50 MB, "huge" is over 50 MB.
SizeClasses == {"small", "big", "huge"}

Raw(doc, size) == [doc |-> doc, size |-> size]

\* json.load(f): the parsed value, or JSONDecodeError.
JsonLoad(raw) ==
    IF raw.doc \in {Garbage, EmptyFile, TornFile} THEN [ok |-> FALSE, value |-> Garbage]
    ELSE [ok |-> TRUE, value |-> raw.doc]

----------------------------------------------------------------------------
(* JSONAnalyzer: the classifier.                                           *)

Max(a, b) == IF a >= b THEN a ELSE b

\* _calculate_depth with `max_depth = self._calculate_depth(...)` in place of
\* the max: the depth below the last container member wins.
RECURSIVE CalculateDepthLastWins(_, _)
CalculateDepthLastWins(obj, current_depth) ==
    LET RECURSIVE Loop(_, _)
        Loop(s, max_depth) ==
            IF s = <<>> THEN max_depth
            ELSE Loop(Tail(s),
                      IF IsContainer(Head(s))
                      THEN CalculateDepthLastWins(Head(s), current_depth + 1)
                      ELSE max_depth)
    IN  IF ~IsContainer(obj) THEN current_depth
        ELSE Loop(obj.kids, current_depth)

RECURSIVE _calculate_depth(_, _)
_calculate_depth(obj, current_depth) ==
    LET RECURSIVE Loop(_, _)
        Loop(s, max_depth) ==
            IF s = <<>> THEN max_depth
            ELSE Loop(Tail(s),
                      IF IsContainer(Head(s))
                      THEN Max(max_depth, _calculate_depth(Head(s), current_depth + 1))
                      ELSE max_depth)
    IN  IF ~IsContainer(obj) THEN current_depth
        ELSE Loop(obj.kids, current_depth)

Range(s) == {s[i] : i \in 1..Len(s)}

SqlKeyLimit == 50
SqlSmallKeyCount == 20
SampleSize == 10

Min(a, b) == IF a <= b THEN a ELSE b

\* key.lower() in ['id', '_id'] and key.endswith('_id'), for the keys of the
\* model.
IsIdKey(k) == k \in {"id", "_id", "ID", "Id", "iD", "_ID", "_Id", "_iD"}
EndsWithId(k) == k \in {"_id", "user_id"}

\* _is_sql_optimized without the `len(keys) > 50` test.
IsSqlOptimizedNoKeyLimit(sample, keys) ==
    LET has_id == \E k \in keys : IsIdKey(k)
        has_foreign_keys == \E k \in keys : EndsWithId(k)
    IN  has_id \/ has_foreign_keys \/ Cardinality(keys) <= SqlSmallKeyCount

_is_sql_optimized(sample, keys) ==
    IF Cardinality(keys) > SqlKeyLimit THEN FALSE
    ELSE LET has_id == \E k \in keys : IsIdKey(k)
             has_foreign_keys == \E k \in keys : EndsWithId(k)
         IN  has_id \/ has_foreign_keys \/ Cardinality(keys) <= SqlSmallKeyCount

\* _analyze_array without the consistent_structure test: the keys of the first
\* element stand for all.
AnalyzeArrayFirstKeysOnly(data) ==
    IF data.kids = <<>>
    THEN {[recommendation |-> "nosql", reason |-> <<"Empty array">>]}
    ELSE LET sample_size == Min(SampleSize, Len(data.kids))
             sample == SubSeq(data.kids, 1, sample_size)
         IN  IF ~(\A i \in 1..sample_size : sample[i].t = "dict")
             THEN {[recommendation |-> "nosql",
                    reason |-> <<"Array contains non-object items">>]}
             ELSE LET first_keys == Range(sample[1].keys)
                      max_depth == _calculate_depth(sample[1], 0)
                  IN  IF max_depth >= 1
                      THEN {[recommendation |-> "nosql",
                             reason |-> <<"Nested data structure (depth: ", max_depth, ")">>,
                             nesting_level |-> max_depth]}
                      ELSE IF _is_sql_optimized(sample, first_keys)
                      THEN {[recommendation |-> "sql",
                             reason |-> <<"Uniform flat structured data">>,
                             estimated_rows |-> Len(data.kids),
                             columns |-> first_keys]}
                      ELSE {[recommendation |-> "nosql", reason |-> <<"Variable structure">>]}

\* _analyze_array with the empty array taken for a table of no rows.
AnalyzeArrayEmptyIsTable(data) ==
    IF data.kids = <<>>
    THEN {[recommendation |-> "sql", reason |-> <<"Uniform flat structured data">>,
           estimated_rows |-> 0, columns |-> {}]}
    ELSE LET sample_size == Min(SampleSize, Len(data.kids))
             sample == SubSeq(data.kids, 1, sample_size)
         IN  IF ~(\A i \in 1..sample_size : sample[i].t = "dict")
             THEN {[recommendation |-> "nosql",
                    reason |-> <<"Array contains non-object items">>]}
             ELSE LET first_keys == Range(sample[1].keys)
                      consistent_structure ==
                          \A i \in 1..sample_size : Range(sample[i].keys) = first_keys
                      max_depth == _calculate_depth(sample[1], 0)
                  IN  IF max_depth >= 1
                      THEN {[recommendation |-> "nosql",
                             reason |-> <<"Nested data structure (depth: ", max_depth, ")">>,
                             nesting_level |-> max_depth]}
                      ELSE IF consistent_structure /\ _is_sql_optimized(sample, first_keys)
                      THEN {[recommendation |-> "sql",
                             reason |-> <<"Uniform flat structured data">>,
                             estimated_rows |-> Len(data.kids),
                             columns |-> first_keys]}
                      ELSE {[recommendation |-> "nosql", reason |-> <<"Variable structure">>]}

\* _analyze_array looking at every element instead of the first ten.
AnalyzeArrayWholeArray(data) ==
    IF data.kids = <<>>
    THEN {[recommendation |-> "nosql", reason |-> <<"Empty array">>]}
    ELSE LET sample_size == Len(data.kids)
             sample == data.kids
         IN  IF ~(\A i \in 1..sample_size : sample[i].t = "dict")
             THEN {[recommendation |-> "nosql",
                    reason |-> <<"Array contains non-object items">>]}
             ELSE LET first_keys == Range(sample[1].keys)
                      consistent_structure ==
                          \A i \in 1..sample_size : Range(sample[i].keys) = first_keys
                      max_depth == _calculate_depth(sample[1], 0)
                  IN  IF max_depth >= 1
                      THEN {[recommendation |-> "nosql",
                             reason |-> <<"Nested data structure (depth: ", max_depth, ")">>,
                             nesting_level |-> max_depth]}
                      ELSE IF consistent_structure /\ _is_sql_optimized(sample, first_keys)
                      THEN {[recommendation |-> "sql",
                             reason |-> <<"Uniform flat structured data">>,
                             estimated_rows |-> Len(data.kids),
                             columns |-> first_keys]}
                      ELSE {[recommendation |-> "nosql", reason |-> <<"Variable structure">>]}

\* The results _analyze_array can return.  "columns" is list(first_keys): the
\* keys of the first element, each once, in the iteration order of a Python
\* set, which is not the document order and is not fixed between runs; it is
\* kept as the set.
_analyze_array(data) ==
    IF data.kids = <<>>
    THEN {[recommendation |-> "nosql", reason |-> <<"Empty array">>]}
    ELSE LET sample_size == Min(SampleSize, Len(data.kids))
             sample == SubSeq(data.kids, 1, sample_size)
         IN  IF ~(\A i \in 1..sample_size : sample[i].t = "dict")
             THEN {[recommendation |-> "nosql",
                    reason |-> <<"Array contains non-object items">>]}
             ELSE LET first_keys == Range(sample[1].keys)
                      consistent_structure ==
                          \A i \in 1..sample_size : Range(sample[i].keys) = first_keys
                      max_depth == _calculate_depth(sample[1], 0)
                  IN  IF max_depth >= 1
                      THEN {[recommendation |-> "nosql",
                             reason |-> <<"Nested data structure (depth: ", max_depth, ")">>,
                             nesting_level |-> max_depth]}
                      ELSE IF consistent_structure /\ _is_sql_optimized(sample, first_keys)
                      THEN {[recommendation |-> "sql",
                             reason |-> <<"Uniform flat structured data">>,
                             estimated_rows |-> Len(data.kids),
                             columns |-> first_keys]}
                      ELSE {[recommendation |-> "nosql", reason |-> <<"Variable structure">>]}

\* _analyze_object with an `if not data` guard sending {} to nosql.
AnalyzeObjectEmptyIsNosql(data) ==
    LET max_depth == _calculate_depth(data, 0)
    IN  IF max_depth >= 1 \/ data.kids = <<>>
        THEN [recommendation |-> "nosql",
              reason |-> <<"Nested data (depth: ", max_depth, ")">>,
              nesting_level |-> max_depth]
        ELSE [recommendation |-> "sql",
              reason |-> <<"Flat structure">>,
              keys |-> data.keys]

_analyze_object(data) ==
    LET max_depth == _calculate_depth(data, 0)
    IN  IF max_depth >= 1
        THEN [recommendation |-> "nosql",
              reason |-> <<"Nested data (depth: ", max_depth, ")">>,
              nesting_level |-> max_depth]
        ELSE [recommendation |-> "sql",
              reason |-> <<"Flat structure">>,
              keys |-> data.keys]

\* analyze_json_file looking at the sql bucket as well: once rows are stored
\* there, everything else is sent to nosql.
AnalyzeJsonFileSeesBucket(exists, raw) ==
    IF ~exists
    THEN {[recommendation |-> "nosql", reason |-> <<"Analysis error: ", "No such file">>]}
    ELSE IF raw.size # "small" \/ sqlDir # <<>>
    THEN {[recommendation |-> "nosql", reason |-> <<"File too large for SQL optimization">>]}
    ELSE LET parsed == JsonLoad(raw)
         IN  IF ~parsed.ok
             THEN {[recommendation |-> "nosql", reason |-> <<"Invalid JSON: ", "Expecting value">>]}
             ELSE IF parsed.value.t = "list" THEN _analyze_array(parsed.value)
             ELSE IF parsed.value.t = "dict" THEN {_analyze_object(parsed.value)}
             ELSE {[recommendation |-> "nosql", reason |-> <<"Simple scalar data type">>]}

\* analyze_json_file on a file: exists is FALSE when the path names no file
\* (os.path.getsize raises).  The set of results it can return.
analyze_json_file(exists, raw) ==
    IF ~exists
    THEN {[recommendation |-> "nosql", reason |-> <<"Analysis error: ", "No such file">>]}
    ELSE IF raw.size # "small"
    THEN {[recommendation |-> "nosql", reason |-> <<"File too large for SQL optimization">>]}
    ELSE LET parsed == JsonLoad(raw)
         IN  IF ~parsed.ok
             THEN {[recommendation |-> "nosql", reason |-> <<"Invalid JSON: ", "Expecting value">>]}
             ELSE IF parsed.value.t = "list" THEN _analyze_array(parsed.value)
             ELSE IF parsed.value.t = "dict" THEN {_analyze_object(parsed.value)}
             ELSE {[recommendation |-> "nosql", reason |-> <<"Simple scalar data type">>]}

----------------------------------------------------------------------------
(* File names, fingerprints and the file system.                           *)

\* hashlib.md5(...).hexdigest(): 32 hex digits, taken to be collision-free.
NoHash == <<>>
_get_file_hash(raw) == <<"md5", raw>>

\* file_hash[:8]
Hash8(file_hash) == <<"md5[:8]", file_hash[2]>>

\* An uploaded file name is Path(name).stem plus Path(name).suffix.  A stem is
\* free text; what matters of it is its wording and whether it spells out
\* the 32 hex digits of some fingerprint.
FileName(base, embed, ext) == [stem |-> [base |-> base, embed |-> embed], ext |-> ext]

\* f"{name_stem}_{timestamp}_{file_hash[:8]}{extension}"
NewFileName(original_name, timestamp, file_hash) ==
    [stem |-> original_name.stem, ts |-> timestamp,
     hash8 |-> Hash8(file_hash), ext |-> original_name.ext]

\* `file_hash in existing_file.name`: the 32 digits occur in the name.  The
\* timestamp (8 and 6 digits), the 8-digit tag and the extension are each
\* too short to hold them, and `_` and `.` are no hex digits, so they occur
\* in the name exactly when they occur in the stem.
HashInName(file_hash, name) == name.stem.embed = file_hash

\* name.endswith('.json') and not name.endswith(('.meta.json', '.schema.json'))
IsDataFileName(name) == name.ext = ".json"

\* file_path.with_suffix('.meta.json')
MetaName(name) == [name EXCEPT !.ext = ".meta.json"]

\* file_path.stem + '.schema.json'
SchemaName(name) == [name EXCEPT !.ext = ".schema.json"]

\* Path(new_file_name).stem
PublicId(name) == <<name.stem, name.ts, name.hash8>>

\* A directory is a function from the names of its files to their contents.
EmptyDir == <<>>
WriteFile(dir, name, body) == (name :> body) @@ dir
\* unlink left out: the file stays.
RemoveFileKeeps(dir, name) == dir
RemoveFile(dir, name) == [n \in DOMAIN dir \ {name} |-> dir[n]]

NoPath == <<>>
NoUrl == <<>>
SecureUrl(folder, public_id) == <<"https://res.cloudinary.com", folder, public_id>>

BucketDir(recommendation) == IF recommendation = "sql" THEN sqlDir ELSE nosqlDir
BucketPath(recommendation) ==
    IF recommendation = "sql" THEN "app/storage/databases/sql"
    ELSE "app/storage/databases/nosql"

\* _check_duplicate finding nothing.
CheckDuplicateFindsNone(file_hash, storage_type) == {}

\* _check_duplicate returns the first match in glob order: any of these, or ""
\* when there is none.
_check_duplicate(file_hash, storage_type) ==
    {n \in DOMAIN BucketDir(storage_type) :
        IsDataFileName(n) /\ HashInName(file_hash, n)}

\* _save_metadata: the sidecar beside the stored file and the schema file.
\* fault names the write that fails, if one does; the exception is swallowed.
SidecarFaults == {"none", "meta", "schema"}

Metadata(raw, analysis, original_name, online_url) ==
    [original_filename |-> original_name, analysis |-> analysis,
     analyzed_at |-> clock, file_size |-> raw.size, online_url |-> online_url]

SchemaInfo(analysis, original_name) ==
    [original_filename |-> original_name,
     storage_type |-> analysis.recommendation,
     columns |-> IF "columns" \in DOMAIN analysis THEN analysis.columns
                 ELSE IF "keys" \in DOMAIN analysis THEN analysis.keys
                 ELSE <<>>,
     reason |-> analysis.reason, analyzed_at |-> clock]

\* json.dump of the metadata dict and json.loads of the text it wrote: the
\* strings, numbers, lists and dicts come back as they were, None is written
\* as null and read as None.
json_dump(metadata) ==
    <<"json", [metadata EXCEPT !.online_url = IF @ = NoUrl THEN <<"null">> ELSE @]>>
json_loads(text) ==
    [text[2] EXCEPT !.online_url = IF @ = <<"null">> THEN NoUrl ELSE @]

\* _save_metadata writing the sidecar without the URL of the upload.
SaveMetadataWithoutUrl(dir, schemas, name, raw, analysis, original_name, online_url, fault) ==
    [dir |-> IF fault = "meta" THEN dir
             ELSE WriteFile(dir, MetaName(name),
                            json_dump(Metadata(raw, analysis, original_name, NoUrl))),
     schemas |-> IF fault # "none" THEN schemas
                 ELSE WriteFile(schemas, SchemaName(name),
                                SchemaInfo(analysis, original_name))]

_save_metadata(dir, schemas, name, raw, analysis, original_name, online_url, fault) ==
    [dir |-> IF fault = "meta" THEN dir
             ELSE WriteFile(dir, MetaName(name),
                            json_dump(Metadata(raw, analysis, original_name, online_url))),
     schemas |-> IF fault # "none" THEN schemas
                 ELSE WriteFile(schemas, SchemaName(name),
                                SchemaInfo(analysis, original_name))]

\* get_file_metadata (json_routes.py): the sidecar of a stored file read back;
\* {} when there is none.
get_file_metadata(dir, name) ==
    IF MetaName(name) \in DOMAIN dir THEN json_loads(dir[MetaName(name)])
    ELSE <<>>

----------------------------------------------------------------------------
(* JSONAnalyzer.store_json_file.                                           *)

\* What the environment decides during one call: which match the directory
\* scan meets first, and which of the writes and uploads go through.
StoreEnvs(dups) ==
    [dup : IF dups = {} THEN {NoPath} ELSE dups,
     copyOk : BOOLEAN, remoteOk : BOOLEAN, sidecar : SidecarFaults]

\* _store_in_sql / _store_in_nosql with the connection the constructor
\* opened: the content is inserted under db_name and a message returned;
\* neither raises.
StoreInDb(db, db_name, data) ==
    db (+) SetToBag({[name |-> db_name, data |-> data]})

DbMessage(db_name) == <<"Stored in ", db_name>>

\* The state a call leaves and what it returns.  `tried` and `failed` record
\* whether the remote upload was attempted and whether it raised, `unsaved`
\* whether _save_metadata was called and one of its writes failed.
Outcome(result, sql, nosql, schemas, temp, rem, sdb, ndb, tried, failed, unsaved) ==
    [result |-> result, sqlDir |-> sql, nosqlDir |-> nosql, schemaDir |-> schemas,
     tempDir |-> temp, remote |-> rem, sqlDb |-> sdb, nosqlDb |-> ndb,
     tried |-> tried, failed |-> failed, unsaved |-> unsaved]

\* recommendation.upper()
Upper(recommendation) == IF recommendation = "sql" THEN "SQL" ELSE "NOSQL"

Failure(error) == [success |-> FALSE, error |-> error]

\* `storage_mode in ("local", "both")` widened to every known mode.
LocalModesWidened == {"local", "both", "online"}
LocalModes == {"local", "both"}
OnlineModes == {"online", "both"}

\* `if storage_mode == "online": raise ValueError(...)`: a failed upload ends
\* the call only when it was the only way of storing.
UploadFailureSwallowed(storage_mode) == FALSE
UploadFailureRaises(storage_mode) == storage_mode = "online"

\* `except Exception as e: print(...)` in _save_metadata: no failure of a
\* sidecar write leaves the function.
SidecarFailureEscapesAlways(fault) == fault # "none"
SidecarFailureEscapes(fault) == FALSE

\* One call under the given STORAGE_MODE and environment.
StoreIn(storage_mode, file_path, original_name, analysis, e) ==
    LET recommendation == analysis.recommendation
        cleaned == RemoveFile(tempDir, file_path)
    IN
    IF file_path \notin DOMAIN tempDir
    THEN \* _get_file_hash raises: the except branch
         Outcome(Failure("No such file or directory"), sqlDir, nosqlDir, schemaDir,
                 cleaned, remote, sqlDb, nosqlDb, FALSE, FALSE, FALSE)
    ELSE
    LET raw == tempDir[file_path]
        file_hash == _get_file_hash(raw)
    IN
    IF e.dup # NoPath
    THEN Outcome([success |-> TRUE,
                  message |-> "File already exists (duplicate detected)",
                  original_name |-> original_name, stored_name |-> e.dup,
                  storage_type |-> Upper(recommendation),
                  final_path |-> <<BucketPath(recommendation), e.dup>>,
                  reason |-> analysis.reason, duplicate |-> TRUE],
                 sqlDir, nosqlDir, schemaDir, cleaned, remote, sqlDb, nosqlDb,
                 FALSE, FALSE, FALSE)
    ELSE
    LET timestamp == clock
        new_file_name == NewFileName(original_name, timestamp, file_hash)
        db_name == <<original_name.stem, timestamp>>
        cloudinary_folder == IF recommendation = "sql" THEN <<"json", "sql">> ELSE <<"json", "nosql">>
        public_id == PublicId(new_file_name)
        local == storage_mode \in LocalModes
        online == storage_mode \in OnlineModes
        \* 4. file storage
        copied == local /\ e.copyOk
        dir1 == IF copied THEN WriteFile(BucketDir(recommendation), new_file_name, raw)
                ELSE BucketDir(recommendation)
        sql1 == IF recommendation = "sql" THEN dir1 ELSE sqlDir
        nosql1 == IF recommendation = "sql" THEN nosqlDir ELSE dir1
        local_path == IF copied THEN <<BucketPath(recommendation), new_file_name>> ELSE NoPath
        uploaded == online /\ e.remoteOk
        rem1 == IF uploaded
                THEN WriteFile(remote, <<cloudinary_folder, public_id>>, raw)
                ELSE remote
        online_url == IF uploaded THEN SecureUrl(cloudinary_folder, public_id) ELSE NoUrl
        \* 5. database storage
        parsed == JsonLoad(raw)
        sdb1 == IF recommendation = "sql"
                THEN StoreInDb(sqlDb, db_name, parsed.value) ELSE sqlDb
        ndb1 == IF recommendation = "sql"
                THEN nosqlDb ELSE StoreInDb(nosqlDb, db_name, parsed.value)
        \* 6. metadata
        saved == _save_metadata(dir1, schemaDir, new_file_name, raw, analysis,
                              original_name, online_url, e.sidecar)
        sql2 == IF recommendation = "sql" /\ local THEN saved.dir ELSE sql1
        nosql2 == IF recommendation # "sql" /\ local THEN saved.dir ELSE nosql1
        schemas2 == IF local THEN saved.schemas ELSE schemaDir
        result == [success |-> TRUE, original_name |-> original_name,
                   stored_name |-> new_file_name, storage_type |-> Upper(recommendation),
                   local_path |-> local_path, online_url |-> online_url,
                   database_name |-> db_name, database_result |-> DbMessage(db_name),
                   reason |-> analysis.reason, file_hash |-> file_hash,
                   timestamp |-> timestamp, duplicate |-> FALSE]
    IN
    IF local /\ ~e.copyOk
    THEN \* shutil.copy raises
         Outcome(Failure("copy failed"), sqlDir, nosqlDir, schemaDir, cleaned,
                 remote, sqlDb, nosqlDb, FALSE, FALSE, FALSE)
    ELSE IF online /\ ~e.remoteOk /\ UploadFailureRaises(storage_mode)
    THEN \* raise ValueError(f"Cloudinary upload failed: {e}")
         Outcome(Failure("Cloudinary upload failed"), sql1, nosql1, schemaDir,
                 cleaned, remote, sqlDb, nosqlDb, TRUE, TRUE, FALSE)
    ELSE IF ~parsed.ok
    THEN \* json.load raises JSONDecodeError
         Outcome(Failure("Expecting value"), sql1, nosql1, schemaDir, cleaned,
                 rem1, sqlDb, nosqlDb, online, online /\ ~e.remoteOk, FALSE)
    ELSE IF local /\ SidecarFailureEscapes(e.sidecar)
    THEN \* an exception out of _save_metadata would reach the except branch
         Outcome(Failure("metadata"), sql2, nosql2, schemas2, cleaned, rem1,
                 sdb1, ndb1, online, online /\ ~e.remoteOk, TRUE)
    ELSE Outcome(result, sql2, nosql2, schemas2, cleaned, rem1, sdb1, ndb1,
                 online, online /\ ~e.remoteOk, local /\ e.sidecar # "none")

\* storage_mode = os.getenv("STORAGE_MODE", "local")
StoreWith(file_path, original_name, analysis, e) ==
    StoreIn(mode, file_path, original_name, analysis, e)

\* What _check_duplicate can return for the file at file_path.
Duplicates(file_path, analysis) ==
    IF file_path \in DOMAIN tempDir
    THEN _check_duplicate(_get_file_hash(tempDir[file_path]), analysis.recommendation)
    ELSE {}

\* Every way one call of store_json_file can go from the current state.
store_json_file(file_path, original_name, analysis) ==
    {StoreWith(file_path, original_name, analysis, e) :
        e \in StoreEnvs(Duplicates(file_path, analysis))}

----------------------------------------------------------------------------
(* POST /json/upload: upload_json.                                         *)

\* The documents of create_test_json and create_nested_json, cut to the
\* model's width, and a file that is not JSON.
flat_data == Dict(<<"id", "name">>, <<Scalar("number"), Scalar("string")>>)
nested_data ==
    Dict(<<"id", "profile">>,
         <<Scalar("number"), Dict(<<"name">>, <<Scalar("string")>>)>>)

Contents ==
    {Raw(flat_data, "small"), Raw(nested_data, "small"), Raw(Garbage, "small"),
     Raw(flat_data, "huge")}

\* Uploaded file names: plain ones, one whose stem spells out the fingerprint
\* of the flat document, and one that is no .json file.
FileNames ==
    {FileName("data", NoHash, ".json"),
     FileName("copy", _get_file_hash(Raw(flat_data, "small")), ".json"),
     FileName("notes", NoHash, ".txt")}

Modes == {"local", "online", "both", "cloud"}

\* file.filename.lower().endswith('.json')
IsJsonName(filename) == filename.ext \in {".json", ".JSON"}

\* temp_dir / f"temp_{file.filename}"
TempFile(filename) == <<"app/storage/temp", "temp_", filename>>

NoRequest == [filename |-> FileName("", NoHash, ""), content |-> Raw(Garbage, "small")]
NoAnalysis == [recommendation |-> "none", reason |-> <<>>]

\* Two requests handled by one event loop.
Uploaders == {"A", "B"}

\* A coroutine of upload_json that has not been started.
NotStarted ==
    [pc |-> "start", filename |-> NoRequest.filename, content |-> NoRequest.content,
     stale |-> FALSE, analysis |-> NoAnalysis, result |-> [success |-> FALSE]]

\* No upload_json call being followed.
NoFrame == [pc |-> "idle", trace |-> <<>>]

\* GET /files not yet asked.
NoListing == [after |-> -1, files |-> EmptyBag]

Init ==
    /\ mode \in Modes
    /\ clock = 0
    /\ sqlDir = EmptyDir
    /\ nosqlDir = EmptyDir
    /\ schemaDir = EmptyDir
    /\ tempDir = EmptyDir
    /\ remote = EmptyDir
    /\ sqlDb = EmptyBag
    /\ nosqlDb = EmptyBag
    /\ pc = "idle"
    /\ req = NoRequest
    /\ response = [status |-> 0]
    /\ last = [kind |-> "none"]
    /\ uploads = 0
    /\ cin = [exists |-> FALSE, raw |-> Raw(Garbage, "small")]
    /\ cout = NoAnalysis
    /\ procs = [u \in Uploaders |-> NotStarted]
    /\ frame = NoFrame
    /\ json_type = "none"
    /\ mediaDir = EmptyDir
    /\ listing = NoListing

\* datetime.now() moves on to a later second.  Only whether two stores fall in
\* the same second matters, so time is let pass once per request after the
\* first, before the store stamps it.
Tick ==
    /\ pc = "saved"
    /\ clock < uploads - 1
    /\ clock' = clock + 1
    /\ UNCHANGED <<mode, sqlDir, nosqlDir, schemaDir, tempDir, remote, sqlDb,
                   nosqlDb, pc, req, response, last, uploads, cin, cout, procs,
                   frame, json_type, mediaDir, listing>>

\* upload_json up to the point where the upload is saved as the temporary
\* file (lines 22-37).
upload_json_save(filename, content, writeOk) ==
    /\ pc = "idle"
    /\ uploads < MaxUploads
    /\ uploads' = uploads + 1
    /\ UNCHANGED <<mode, clock, sqlDir, nosqlDir, schemaDir, remote, sqlDb,
                   nosqlDb, cin, cout, procs, frame, json_type, mediaDir, listing>>
    /\ \/ /\ ~IsJsonName(filename)
          /\ response' = [status |-> 400, detail |-> "Only JSON files are allowed"]
          /\ last' = [kind |-> "rejected"]
          /\ UNCHANGED <<tempDir, pc, req>>
       \/ /\ IsJsonName(filename)
          /\ content.size = "huge"
          /\ response' = [status |-> 413, detail |-> "File too large. Maximum size is 50MB"]
          /\ last' = [kind |-> "rejected"]
          /\ UNCHANGED <<tempDir, pc, req>>
       \/ /\ IsJsonName(filename)
          /\ content.size # "huge"
          /\ writeOk
          /\ tempDir' = WriteFile(tempDir, TempFile(filename), content)
          /\ req' = [filename |-> filename, content |-> content]
          /\ pc' = "saved"
          /\ UNCHANGED <<response, last>>
       \/ /\ IsJsonName(filename)
          /\ content.size # "huge"
          /\ ~writeOk
          \* the write raises; the except branch unlinks what exists
          /\ tempDir' = RemoveFile(tempDir, TempFile(filename))
          /\ response' = [status |-> 500, detail |-> <<"Processing failed: ", "write error">>]
          /\ last' = [kind |-> "rejected"]
          /\ UNCHANGED <<pc, req>>

\* upload_json from the analysis to the response (lines 41-68).
upload_json_process ==
    /\ pc = "saved"
    /\ LET temp_file == TempFile(req.filename)
           exists == temp_file \in DOMAIN tempDir
           raw == IF exists THEN tempDir[temp_file] ELSE Raw(Garbage, "small")
       IN  \E analysis \in analyze_json_file(exists, raw) :
           \E o \in store_json_file(temp_file, req.filename, analysis) :
              /\ sqlDir' = o.sqlDir
              /\ nosqlDir' = o.nosqlDir
              /\ schemaDir' = o.schemaDir
              /\ remote' = o.remote
              /\ sqlDb' = o.sqlDb
              /\ nosqlDb' = o.nosqlDb
              /\ tempDir' = IF o.result.success THEN o.tempDir
                            ELSE RemoveFile(o.tempDir, temp_file)
              /\ response' =
                    IF o.result.success
                    THEN [status |-> 200, message |-> "JSON processed successfully!",
                          details |-> o.result, analysis |-> analysis]
                    ELSE [status |-> 500,
                          detail |-> <<"Processing failed: ", o.result.error>>]
              /\ last' = [kind |-> "store", filename |-> req.filename,
                          raw |-> req.content, analysis |-> analysis,
                          result |-> o.result, tried |-> o.tried, failed |-> o.failed,
                          unsaved |-> o.unsaved]
    /\ pc' = "idle"
    /\ UNCHANGED <<mode, clock, req, uploads, cin, cout, procs,
                   frame, json_type, mediaDir, listing>>

Next ==
    \/ Tick
    \/ \E filename \in FileNames, content \in Contents, writeOk \in BOOLEAN :
          upload_json_save(filename, content, writeOk)
    \/ upload_json_process

Spec == Init /\ [][Next]_vars

----------------------------------------------------------------------------
(* POST /json/upload, two requests at a time.  upload_json is a coroutine:  *)
(* the event loop runs another request wherever it awaits, at the open and  *)
(* at the write of the temporary file, which aiofiles hands to a thread.    *)
(* From the analysis to the response it does not await, so that part runs   *)
(* in one piece.  No write, copy or upload fails here.                      *)

\* The valid JSON files the two requests carry, and their names.
ConcContents == {Raw(flat_data, "small"), Raw(nested_data, "small")}
ConcFileNames == {n \in FileNames : IsJsonName(n)}

\* What a file holds after `bytes` are written at its start: them alone when
\* they cover what was there, otherwise them and the rest of what was there.
WriteOver(old, bytes) ==
    IF old.doc = EmptyFile \/ old = bytes THEN {bytes}
    ELSE {bytes, Raw(TornFile, "small")}

\* The environment of a store in which nothing fails.
FaultFree(dups) ==
    {e \in StoreEnvs(dups) : e.copyOk /\ e.remoteOk /\ e.sidecar = "none"}

concFrame == <<mode, pc, req, response, last, uploads, cin, cout,
               frame, json_type, mediaDir, listing>>

\* aiofiles.open(temp_file, 'wb') (line 36): the file is created, or cut to
\* no bytes when it is there.
upload_json_open(u, filename, content) ==
    /\ procs[u].pc = "start"
    /\ tempDir' = WriteFile(tempDir, TempFile(filename), Raw(EmptyFile, "small"))
    /\ procs' = [procs EXCEPT ![u] = [@ EXCEPT !.pc = "opened",
                                               !.filename = filename,
                                               !.content = content]]
    /\ UNCHANGED <<concFrame, clock, sqlDir, nosqlDir, schemaDir, remote, sqlDb, nosqlDb>>

\* await f.write(content) and the close that ends the `async with` (line 37):
\* the bytes reach the file the handle was opened on, from its start.  After
\* an unlink of the path that file is no longer the one the path names.
upload_json_write(u) ==
    /\ procs[u].pc = "opened"
    /\ IF procs[u].stale
       THEN tempDir' = tempDir
       ELSE \E bytes \in WriteOver(tempDir[TempFile(procs[u].filename)], procs[u].content) :
               tempDir' = WriteFile(tempDir, TempFile(procs[u].filename), bytes)
    /\ procs' = [procs EXCEPT ![u] = [@ EXCEPT !.pc = "written"]]
    /\ UNCHANGED <<concFrame, clock, sqlDir, nosqlDir, schemaDir, remote, sqlDb, nosqlDb>>

\* Lines 41-68 for one request: analysis, store, response.  The unlink takes
\* the path from under a handle another request holds open on it.
upload_json_store(u) ==
    /\ procs[u].pc = "written"
    /\ LET temp_file == TempFile(procs[u].filename)
           exists == temp_file \in DOMAIN tempDir
           raw == IF exists THEN tempDir[temp_file] ELSE Raw(Garbage, "small")
       IN  \E analysis \in analyze_json_file(exists, raw) :
           \E e \in FaultFree(Duplicates(temp_file, analysis)) :
              LET o == StoreWith(temp_file, procs[u].filename, analysis, e)
              IN  /\ sqlDir' = o.sqlDir
                  /\ nosqlDir' = o.nosqlDir
                  /\ schemaDir' = o.schemaDir
                  /\ remote' = o.remote
                  /\ sqlDb' = o.sqlDb
                  /\ nosqlDb' = o.nosqlDb
                  /\ tempDir' = RemoveFile(o.tempDir, temp_file)
                  /\ procs' =
                        [v \in Uploaders |->
                            IF v = u
                            THEN [procs[u] EXCEPT !.pc = "done",
                                                  !.analysis = analysis,
                                                  !.result = o.result]
                            ELSE IF procs[v].pc = "opened"
                                    /\ procs[v].filename = procs[u].filename
                            THEN [procs[v] EXCEPT !.stale = TRUE]
                            ELSE procs[v]]
    /\ UNCHANGED <<concFrame, clock>>

\* datetime.now() moves on to the next second while the requests are handled.
TickBetween ==
    /\ clock = 0
    /\ \E u \in Uploaders : procs[u].pc # "start"
    /\ \E u \in Uploaders : procs[u].pc # "done"
    /\ clock' = 1
    /\ UNCHANGED <<concFrame, procs, tempDir, sqlDir, nosqlDir, schemaDir, remote,
                   sqlDb, nosqlDb>>

NextConc ==
    \/ \E u \in Uploaders, filename \in ConcFileNames, content \in ConcContents :
          upload_json_open(u, filename, content)
    \/ \E u \in Uploaders : upload_json_write(u)
    \/ \E u \in Uploaders : upload_json_store(u)
    \/ TickBetween

SpecConc == Init /\ [][NextConc]_vars

----------------------------------------------------------------------------
(* The classifier on its own: analyze_json_file applied to one file.       *)

\* The scalars a JSON text can be: json.load returns an int or float, a str,
\* a bool or None.
TopLevelScalars == {Scalar(t) : t \in {"number", "string", "boolean", "null"}}

ClassifierInputs(n) ==
    {[exists |-> TRUE, raw |-> Raw(doc, size)] :
        doc \in JSONValues(n) \cup TopLevelScalars \cup {Garbage}, size \in {"small", "big"}}
    \cup {[exists |-> FALSE, raw |-> Raw(Garbage, "small")]}

InitClassify ==
    /\ mode = "local"
    /\ clock = 0
    /\ sqlDir = EmptyDir
    /\ nosqlDir = EmptyDir
    /\ schemaDir = EmptyDir
    /\ tempDir = EmptyDir
    /\ remote = EmptyDir
    /\ sqlDb = EmptyBag
    /\ nosqlDb = EmptyBag
    /\ pc = "idle"
    /\ req = NoRequest
    /\ response = [status |-> 0]
    /\ last = [kind |-> "none"]
    /\ uploads = 0
    /\ cin \in ClassifierInputs(MaxNodes)
    /\ cout = NoAnalysis
    /\ procs = [u \in Uploaders |-> NotStarted]
    /\ frame = NoFrame
    /\ json_type = "none"
    /\ mediaDir = EmptyDir
    /\ listing = NoListing

Classify ==
    /\ cout = NoAnalysis
    /\ cout' \in analyze_json_file(cin.exists, cin.raw)
    /\ UNCHANGED <<storeVars, cin>>

SpecClassify == InitClassify /\ [][Classify]_vars

----------------------------------------------------------------------------
(* The classifier on arrays of rows: files that hold a JSON array whose    *)
(* elements are objects of up to 51 columns, as exported tables are.       *)

\* Column names, none of them an identifier: no 'id', no '_id' ending.
ColumnNames ==
    <<"c1", "c2", "c3", "c4", "c5", "c6", "c7", "c8", "c9", "c10", "c11",
      "c12", "c13", "c14", "c15", "c16", "c17", "c18", "c19", "c20", "c21",
      "c22", "c23", "c24", "c25", "c26", "c27", "c28", "c29", "c30", "c31",
      "c32", "c33", "c34", "c35", "c36", "c37", "c38", "c39", "c40", "c41",
      "c42", "c43", "c44", "c45", "c46", "c47", "c48", "c49", "c50", "c51">>

\* Names for the first column of a row: an ordinary one, or one the
\* heuristic takes for a primary or foreign key.
FirstColumns == {"c1", "id", "ID", "_id", "user_id"}

\* Column counts around the two limits of _is_sql_optimized.
KeyCounts ==
    {0, 1, SqlSmallKeyCount, SqlSmallKeyCount + 1, SqlKeyLimit, SqlKeyLimit + 1}

\* A flat object of k columns.
Row(k, first) ==
    Dict([i \in 1..k |-> IF i = 1 THEN first ELSE ColumnNames[i]],
         [i \in 1..k |-> Scalar("number")])

\* Elements that differ from a row: its columns in reverse order, one column
\* fewer, one column under another name, a nested value, or no object.
Reordered(row) ==
    Dict([i \in 1..Len(row.keys) |-> row.keys[Len(row.keys) + 1 - i]], row.kids)
Narrower(row) ==
    Dict(SubSeq(row.keys, 1, Len(row.keys) - 1), SubSeq(row.kids, 1, Len(row.kids) - 1))
Renamed(row) ==
    Dict([row.keys EXCEPT ![Len(row.keys)] = "name"], row.kids)
Nesting(row) ==
    Dict(row.keys, [row.kids EXCEPT ![Len(row.kids)] = List(<<>>)])

OddElements(row) ==
    {Scalar("string")}
    \cup (IF row.keys = <<>> THEN {Dict(<<"name">>, <<Scalar("number")>>)}
          ELSE {Reordered(row), Narrower(row), Renamed(row), Nesting(row)})

\* n copies of a row, the element at position j replaced.
Table(row, n, j, odd) == List([i \in 1..n |-> IF i = j THEN odd ELSE row])

\* Positions at the start of the array and around the end of the sample.
OddPositions(n) == {1, 2, SampleSize, SampleSize + 1} \cap 1..n

\* Arrays of at most `rows` elements.
Tables(rows) ==
    UNION {
        {Table(Row(k, first), n, 0, Row(k, first)) : n \in 1..rows}
        \cup UNION {{Table(Row(k, first), n, j, odd) :
                        j \in OddPositions(n), odd \in OddElements(Row(k, first))} :
                    n \in 1..rows}
        : k \in KeyCounts, first \in FirstColumns}

ArrayInputs(rows) ==
    {[exists |-> TRUE, raw |-> Raw(doc, size)] :
        doc \in Tables(rows), size \in {"small", "big"}}

InitArrays ==
    /\ mode = "local"
    /\ clock = 0
    /\ sqlDir = EmptyDir
    /\ nosqlDir = EmptyDir
    /\ schemaDir = EmptyDir
    /\ tempDir = EmptyDir
    /\ remote = EmptyDir
    /\ sqlDb = EmptyBag
    /\ nosqlDb = EmptyBag
    /\ pc = "idle"
    /\ req = NoRequest
    /\ response = [status |-> 0]
    /\ last = [kind |-> "none"]
    /\ uploads = 0
    /\ cin \in ArrayInputs(MaxRows)
    /\ cout = NoAnalysis
    /\ procs = [u \in Uploaders |-> NotStarted]
    /\ frame = NoFrame
    /\ json_type = "none"
    /\ mediaDir = EmptyDir
    /\ listing = NoListing

SpecArrays == InitArrays /\ [][Classify]_vars

----------------------------------------------------------------------------
(* POST /json/upload followed statement by statement: one request at a     *)
(* time, each statement of upload_json and store_json_file that reads or   *)
(* writes a file, a store or the clock a step of its own.  frame holds the *)
(* locals of the call and, in trace, the statements that have finished.    *)

stepFrame == <<mode, pc, req, response, last, cin, cout, procs, json_type,
               mediaDir, listing>>

\* The statement store_json_file reaches after the one at `at` when nothing
\* raises: sections 4, 5, 6 and 7 of the function, the metadata written
\* before the upload and the database insert.
SuccessorMetadataFirst(at, storage_mode) ==
    CASE at = "check" ->
            IF storage_mode \in LocalModes THEN "copy"
            ELSE IF storage_mode \in OnlineModes THEN "upload" ELSE "db"
      [] at = "copy" -> "sidecar"
      [] at = "sidecar" -> IF storage_mode \in OnlineModes THEN "upload" ELSE "db"
      [] at = "upload" -> "db"
      [] at = "db" -> "unlink"

\* The statement store_json_file reaches after the one at `at` when nothing
\* raises: sections 4, 5, 6 and 7 of the function.
Successor(at, storage_mode) ==
    CASE at = "check" ->
            IF storage_mode \in LocalModes THEN "copy"
            ELSE IF storage_mode \in OnlineModes THEN "upload" ELSE "db"
      [] at = "copy" -> IF storage_mode \in OnlineModes THEN "upload" ELSE "db"
      [] at = "upload" -> "db"
      [] at = "db" -> IF storage_mode \in LocalModes THEN "sidecar" ELSE "unlink"
      [] at = "sidecar" -> "unlink"

\* The frame after the statement `done`, about to run the statement `to`.
Advance(f, done, to) == [f EXCEPT !.pc = to, !.trace = Append(@, done)]

\* async with aiofiles.open(temp_file, 'wb') as f: await f.write(content)
write_temp_file(filename, content) ==
    /\ frame.pc \in {"idle", "done"}
    /\ uploads < MaxUploads
    /\ uploads' = uploads + 1
    /\ tempDir' = WriteFile(tempDir, TempFile(filename), content)
    /\ frame' = [pc |-> "classify", trace |-> <<"save">>, filename |-> filename,
                 temp_file |-> TempFile(filename)]
    /\ UNCHANGED <<stepFrame, clock, sqlDir, nosqlDir, schemaDir, remote, sqlDb, nosqlDb>>

\* analysis = json_analyzer.analyze_json_file(str(temp_file))
call_analyze_json_file ==
    /\ frame.pc = "classify"
    /\ \E analysis \in analyze_json_file(TRUE, tempDir[frame.temp_file]) :
          frame' = Advance(frame, "classify", "hash") @@ [analysis |-> analysis]
    /\ UNCHANGED <<stepFrame, clock, uploads, tempDir, sqlDir, nosqlDir, schemaDir,
                   remote, sqlDb, nosqlDb>>

\* file_hash = self._get_file_hash(file_path)
call_get_file_hash ==
    /\ frame.pc = "hash"
    /\ frame' = Advance(frame, "hash", "check")
                   @@ [file_hash |-> _get_file_hash(tempDir[frame.temp_file])]
    /\ UNCHANGED <<stepFrame, clock, uploads, tempDir, sqlDir, nosqlDir, schemaDir,
                   remote, sqlDb, nosqlDb>>

\* duplicate = self._check_duplicate(file_hash, recommendation), and for a
\* file that is new the names of section 2, the timestamp read from the clock.
call_check_duplicate ==
    /\ frame.pc = "check"
    /\ LET dups == _check_duplicate(frame.file_hash, frame.analysis.recommendation)
       IN  IF dups # {}
           THEN \E dup \in dups :
                   frame' = Advance(frame, "check", "unlink")
                               @@ [result |-> [success |-> TRUE, duplicate |-> TRUE,
                                               stored_name |-> dup]]
           ELSE frame' = Advance(frame, "check", Successor("check", mode))
                            @@ [new_file_name |->
                                   NewFileName(frame.filename, clock, frame.file_hash),
                                db_name |-> <<frame.filename.stem, clock>>,
                                online_url |-> NoUrl,
                                result |-> [success |-> TRUE, duplicate |-> FALSE]]
    /\ UNCHANGED <<stepFrame, clock, uploads, tempDir, sqlDir, nosqlDir, schemaDir,
                   remote, sqlDb, nosqlDb>>

\* shutil.copy(file_path, local_target_path)
shutil_copy(ok) ==
    /\ frame.pc = "copy"
    /\ IF ok
       THEN /\ frame' = Advance(frame, "copy", Successor("copy", mode))
            /\ IF frame.analysis.recommendation = "sql"
               THEN /\ sqlDir' = WriteFile(sqlDir, frame.new_file_name,
                                           tempDir[frame.temp_file])
                    /\ UNCHANGED nosqlDir
               ELSE /\ nosqlDir' = WriteFile(nosqlDir, frame.new_file_name,
                                             tempDir[frame.temp_file])
                    /\ UNCHANGED sqlDir
       ELSE /\ frame' = [frame EXCEPT !.pc = "except", !.result = Failure("copy failed")]
            /\ UNCHANGED <<sqlDir, nosqlDir>>
    /\ UNCHANGED <<stepFrame, clock, uploads, tempDir, schemaDir, remote, sqlDb, nosqlDb>>

\* cloudinary.uploader.upload(file_path, ...) inside its try
cloudinary_upload(ok) ==
    /\ frame.pc = "upload"
    /\ LET folder == IF frame.analysis.recommendation = "sql"
                     THEN <<"json", "sql">> ELSE <<"json", "nosql">>
           public_id == PublicId(frame.new_file_name)
       IN  IF ok
           THEN /\ remote' = WriteFile(remote, <<folder, public_id>>,
                                       tempDir[frame.temp_file])
                /\ frame' = [Advance(frame, "upload", Successor("upload", mode))
                                EXCEPT !.online_url = SecureUrl(folder, public_id)]
           ELSE /\ UNCHANGED remote
                /\ frame' = IF UploadFailureRaises(mode)
                            THEN [frame EXCEPT !.pc = "except",
                                     !.result = Failure("Cloudinary upload failed")]
                            ELSE Advance(frame, "upload", Successor("upload", mode))
    /\ UNCHANGED <<stepFrame, clock, uploads, tempDir, sqlDir, nosqlDir, schemaDir,
                   sqlDb, nosqlDb>>

\* section 5: json.load(f) and _store_in_sql or _store_in_nosql
store_in_database ==
    /\ frame.pc = "db"
    /\ LET parsed == JsonLoad(tempDir[frame.temp_file])
       IN  IF ~parsed.ok
           THEN /\ frame' = [frame EXCEPT !.pc = "except",
                                !.result = Failure("Expecting value")]
                /\ UNCHANGED <<sqlDb, nosqlDb>>
           ELSE /\ frame' = Advance(frame, "db", Successor("db", mode))
                /\ IF frame.analysis.recommendation = "sql"
                   THEN /\ sqlDb' = StoreInDb(sqlDb, frame.db_name, parsed.value)
                        /\ UNCHANGED nosqlDb
                   ELSE /\ nosqlDb' = StoreInDb(nosqlDb, frame.db_name, parsed.value)
                        /\ UNCHANGED sqlDb
    /\ UNCHANGED <<stepFrame, clock, uploads, tempDir, sqlDir, nosqlDir, schemaDir, remote>>

\* self._save_metadata(local_target_path, analysis, original_name, online_url)
call_save_metadata(fault) ==
    /\ frame.pc = "sidecar"
    /\ LET saved == _save_metadata(BucketDir(frame.analysis.recommendation), schemaDir,
                                   frame.new_file_name, tempDir[frame.temp_file],
                                   frame.analysis, frame.filename, frame.online_url,
                                   fault)
       IN  /\ schemaDir' = saved.schemas
           /\ IF frame.analysis.recommendation = "sql"
              THEN sqlDir' = saved.dir /\ UNCHANGED nosqlDir
              ELSE nosqlDir' = saved.dir /\ UNCHANGED sqlDir
    /\ frame' = Advance(frame, "sidecar", Successor("sidecar", mode))
    /\ UNCHANGED <<stepFrame, clock, uploads, tempDir, remote, sqlDb, nosqlDb>>

\* Path(file_path).unlink(missing_ok=True), on the way out of every branch
unlink_temp_file ==
    /\ frame.pc \in {"unlink", "except"}
    /\ tempDir' = RemoveFile(tempDir, frame.temp_file)
    /\ frame' = Advance(frame, "unlink", "done")
    /\ UNCHANGED <<stepFrame, clock, uploads, sqlDir, nosqlDir, schemaDir, remote,
                   sqlDb, nosqlDb>>

\* A second passes before the store reads the clock.
TickSteps ==
    /\ frame.pc = "check"
    /\ clock < uploads - 1
    /\ clock' = clock + 1
    /\ UNCHANGED <<stepFrame, frame, uploads, tempDir, sqlDir, nosqlDir, schemaDir,
                   remote, sqlDb, nosqlDb>>

NextSteps ==
    \/ \E filename \in ConcFileNames, content \in Contents \ {Raw(flat_data, "huge")} :
          write_temp_file(filename, content)
    \/ call_analyze_json_file
    \/ call_get_file_hash
    \/ call_check_duplicate
    \/ \E ok \in BOOLEAN : shutil_copy(ok)
    \/ \E ok \in BOOLEAN : cloudinary_upload(ok)
    \/ store_in_database
    \/ \E fault \in SidecarFaults : call_save_metadata(fault)
    \/ unlink_temp_file
    \/ TickSteps

SpecSteps == Init /\ [][NextSteps]_vars

----------------------------------------------------------------------------
(* app/utils/file_utils.py: the classifier of handle_json_upload.          *)

\* get_depth(obj, current_depth), the helper inside _classify_json_content.
RECURSIVE get_depth(_, _)
get_depth(obj, current_depth) ==
    IF ~IsContainer(obj) THEN current_depth
    ELSE LET RECURSIVE Loop(_, _)
             Loop(i, max_depth) ==
                 IF i > Len(obj.kids) THEN max_depth
                 ELSE Loop(i + 1,
                           IF IsContainer(obj.kids[i])
                           THEN Max(max_depth, get_depth(obj.kids[i], current_depth + 1))
                           ELSE max_depth)
         IN  Loop(1, current_depth)

\* all(not isinstance(v, (dict, list)) for v in d.values())
AllSimple(d) == \A i \in 1..Len(d.kids) : ~IsContainer(d.kids[i])

\* _classify_json_content letting text that is no JSON through as 'nosql'.
ClassifyJsonContentNeverUnstructured(file_data) ==
    LET parsed == JsonLoad(file_data)
    IN  IF ~parsed.ok THEN "nosql"
        ELSE LET data == parsed.value
             IN  IF get_depth(data, 0) >= 1 THEN "nosql"
                 ELSE IF data.t = "dict" THEN (IF AllSimple(data) THEN "sql" ELSE "nosql")
                 ELSE IF data.t = "list" /\ Len(data.kids) > 0
                 THEN (IF data.kids[1].t = "dict" /\ AllSimple(data.kids[1])
                       THEN "sql" ELSE "nosql")
                 ELSE "nosql"

\* _classify_json_content(file_data): "sql", "nosql", or "unstructured" for
\* bytes that do not decode or parse.
_classify_json_content(file_data) ==
    LET parsed == JsonLoad(file_data)
    IN  IF ~parsed.ok THEN "unstructured"
        ELSE LET data == parsed.value
             IN  IF get_depth(data, 0) >= 1 THEN "nosql"
                 ELSE IF data.t = "dict" THEN (IF AllSimple(data) THEN "sql" ELSE "nosql")
                 ELSE IF data.t = "list" /\ Len(data.kids) > 0
                 THEN (IF data.kids[1].t = "dict" /\ AllSimple(data.kids[1])
                       THEN "sql" ELSE "nosql")
                 ELSE "nosql"

\* Both classifiers applied to one file: JSONAnalyzer to the file on disk,
\* _classify_json_content to its bytes.
InitContent ==
    /\ InitArrays \/ InitClassify
    /\ cin.exists

ClassifyContent ==
    /\ json_type = "none"
    /\ json_type' = _classify_json_content(cin.raw)
    /\ UNCHANGED <<mode, clock, sqlDir, nosqlDir, schemaDir, tempDir, remote, sqlDb,
                   nosqlDb, pc, req, response, last, uploads, cin, cout, procs,
                   frame, mediaDir, listing>>

NextContent == Classify \/ ClassifyContent

SpecContent == InitContent /\ [][NextContent]_vars

----------------------------------------------------------------------------
(* app/utils/file_utils.py and POST /upload/ (app/routers/upload_router.py): *)
(* media files, ZIP archives of media files, and handle_json_upload.  A      *)
(* file name is the text before its last dot, as a sequence of pieces, and   *)
(* the text after it; every name here has a dot.                             *)

ALLOWED_IMAGE_EXTENSIONS ==
    {"jpg", "jpeg", "png", "gif", "webp", "bmp", "tiff", "tif", "svg", "heic",
     "heif", "ico", "raw", "cr2", "nef", "orf", "sr2", "avif"}
ALLOWED_VIDEO_EXTENSIONS ==
    {"mp4", "mov", "avi", "mkv", "wmv", "flv", "webm", "mpeg", "mpg", "3gp", "m4v", "vob"}

UploadName(pieces, ext) == [ext |-> ext, name |-> pieces]

\* str.lower() on the extensions that occur
Lower(ext) ==
    CASE ext = "JPG" -> "jpg"
      [] ext = "JSON" -> "json"
      [] OTHER -> ext

\* werkzeug's secure_filename: path separators and blanks become underscores.
secure_filename(filename) ==
    [filename EXCEPT !.name = [i \in DOMAIN @ |-> IF @[i] \in {" ", "/"} THEN "_" ELSE @[i]]]

\* Bytes of a media file.
Bytes(b) == Raw([t |-> b, keys |-> <<>>, kids |-> <<>>], "small")

\* Both helpers return normally or raise ValueError.
\* _save_media_to_local(file_data, filename) on the media tree `dir`
_save_media_to_local(dir, file_data, filename) ==
    LET safe_filename == secure_filename(filename)
        extension == Lower(safe_filename.ext)
        category == IF extension \in ALLOWED_IMAGE_EXTENSIONS THEN "images" ELSE "videos"
        final_path == <<category, extension, safe_filename>>
    IN  IF extension \notin ALLOWED_IMAGE_EXTENSIONS \cup ALLOWED_VIDEO_EXTENSIONS
        THEN [raised |-> TRUE, dir |-> dir, path |-> NoPath]
        ELSE [raised |-> FALSE, dir |-> WriteFile(dir, final_path, file_data),
              path |-> final_path]

\* _save_media_to_cloudinary(file_data, filename) on the remote store `rem`;
\* ok tells whether cloudinary.uploader.upload goes through.
_save_media_to_cloudinary(rem, file_data, filename, ok) ==
    LET safe_filename == secure_filename(filename)
        extension == Lower(safe_filename.ext)
        folder_path == IF extension \in ALLOWED_IMAGE_EXTENSIONS
                       THEN <<"images", extension>> ELSE <<"videos", extension>>
        public_id == safe_filename.name
    IN  IF extension \notin ALLOWED_IMAGE_EXTENSIONS \cup ALLOWED_VIDEO_EXTENSIONS \/ ~ok
        THEN [raised |-> TRUE, rem |-> rem, secure_url |-> NoUrl]
        ELSE [raised |-> FALSE, rem |-> WriteFile(rem, <<folder_path, public_id>>, file_data),
              secure_url |-> SecureUrl(folder_path, public_id)]

\* What a handler leaves and returns: raised is "" or the exception, written
\* the copies the call made (local paths and URLs).
Handled(raised, result, media, rem, written) ==
    [raised |-> raised, result |-> result, mediaDir |-> media, remote |-> rem,
     written |-> written]

\* handle_file_upload(file)
handle_file_upload(storage_mode, file, remoteOk) ==
    LET local == IF storage_mode \in LocalModes
                 THEN _save_media_to_local(mediaDir, file.data, file.filename)
                 ELSE [raised |-> FALSE, dir |-> mediaDir, path |-> NoPath]
        cloud == IF storage_mode \in OnlineModes
                 THEN _save_media_to_cloudinary(remote, file.data, file.filename, remoteOk)
                 ELSE [raised |-> FALSE, rem |-> remote, secure_url |-> NoUrl]
        written == (IF local.path # NoPath THEN {local.path} ELSE {})
                   \cup (IF cloud.secure_url # NoUrl THEN {cloud.secure_url} ELSE {})
        result == [filename |-> file.filename, local_path |-> local.path,
                   online_url |-> cloud.secure_url]
    IN  IF local.raised
        THEN Handled("ValueError", <<>>, mediaDir, remote, {})
        ELSE IF cloud.raised /\ storage_mode = "online"
        THEN Handled("ValueError", <<>>, local.dir, remote, written)
        ELSE Handled("", result, local.dir, cloud.rem, written)

\* Entries of an archive: a path inside it and the bytes.
ZipEntry(dir, pieces, ext, data) ==
    [data |-> data, dir |-> dir, filename |-> UploadName(pieces, ext)]

\* filename.endswith('/') or "__MACOSX" in filename
IsSkippedEntry(e) == e.filename.ext = "" \/ e.dir = "__MACOSX/"

\* handle_zip_upload(file); remoteOk[i] tells whether the upload of entry i
\* goes through.
handle_zip_upload(storage_mode, file, remoteOk) ==
    IF ~file.data.ok
    THEN Handled("ValueError", <<>>, mediaDir, remote, {})
    ELSE
    LET entries == file.data.entries
        RECURSIVE Loop(_, _)
        Loop(i, s) ==
            IF i > Len(entries) THEN s
            ELSE
            LET e == entries[i]
                base_filename == e.filename
                ext == Lower(base_filename.ext)
                local == IF storage_mode \in LocalModes
                         THEN _save_media_to_local(s.mediaDir, e.data, base_filename)
                         ELSE [raised |-> FALSE, dir |-> s.mediaDir, path |-> NoPath]
                cloud == IF storage_mode \in OnlineModes
                         THEN _save_media_to_cloudinary(s.remote, e.data, base_filename,
                                                        remoteOk[i])
                         ELSE [raised |-> FALSE, rem |-> s.remote, secure_url |-> NoUrl]
                result == [filename |-> base_filename, local_path |-> local.path,
                           online_url |-> cloud.secure_url]
            IN  IF IsSkippedEntry(e) THEN Loop(i + 1, s)
                ELSE IF ext \notin ALLOWED_IMAGE_EXTENSIONS \cup ALLOWED_VIDEO_EXTENSIONS
                THEN Loop(i + 1, s)
                ELSE IF local.raised THEN Loop(i + 1, s)
                ELSE IF cloud.raised
                THEN \* except ValueError: the entry is skipped
                     Loop(i + 1, [s EXCEPT !.mediaDir = local.dir,
                                     !.written = IF local.path # NoPath
                                                 THEN @ \cup {local.path} ELSE @])
                ELSE Loop(i + 1,
                          [s EXCEPT !.mediaDir = local.dir, !.remote = cloud.rem,
                              !.result = Append(@, result),
                              !.written =
                                  @ \cup (IF local.path # NoPath THEN {local.path} ELSE {})
                                    \cup (IF cloud.secure_url # NoUrl
                                          THEN {cloud.secure_url} ELSE {})])
    IN  Loop(1, Handled("", <<>>, mediaDir, remote, {}))

\* _save_json_to_local and _save_json_to_cloudinary lead to
\* app/storage/databases/{json_type} and to the folder json/{json_type}.
JsonFolder(kind) == <<"json", kind>>

\* What handle_json_upload leaves and returns.
JsonHandled(raised, result, sql, nosql, rem) ==
    [raised |-> raised, result |-> result, sqlDir |-> sql, nosqlDir |-> nosql,
     remote |-> rem]

\* handle_json_upload(file)
handle_json_upload(storage_mode, file, remoteOk) ==
    LET json_type_ == _classify_json_content(file.data)
        safe_filename == secure_filename(file.filename)
        local == storage_mode \in LocalModes
        online == storage_mode \in OnlineModes
        sql1 == IF local /\ json_type_ = "sql"
                THEN WriteFile(sqlDir, safe_filename, file.data) ELSE sqlDir
        nosql1 == IF local /\ json_type_ = "nosql"
                  THEN WriteFile(nosqlDir, safe_filename, file.data) ELSE nosqlDir
        uploaded == online /\ remoteOk
        rem1 == IF uploaded
                THEN WriteFile(remote, <<JsonFolder(json_type_), safe_filename.name>>,
                               file.data)
                ELSE remote
        result == [filename |-> file.filename, json_type |-> json_type_,
                   local_path |-> IF local THEN <<"app/storage/databases", json_type_,
                                                  safe_filename>>
                                  ELSE NoPath,
                   online_url |-> IF uploaded
                                  THEN SecureUrl(JsonFolder(json_type_), safe_filename.name)
                                  ELSE NoUrl]
    IN  IF json_type_ = "unstructured"
        THEN JsonHandled("ValueError", <<>>, sqlDir, nosqlDir, remote)
        ELSE IF online /\ ~remoteOk /\ storage_mode = "online"
        THEN JsonHandled("ValueError", <<>>, sql1, nosql1, remote)
        ELSE JsonHandled("", result, sql1, nosql1, rem1)

\* Uploaded files.
MediaFiles ==
    {[data |-> Bytes("pixels"), filename |-> UploadName(<<"cat">>, "jpg")],
     [data |-> Bytes("pixels"), filename |-> UploadName(<<"my", " ", "cat">>, "JPG")],
     [data |-> Bytes("frames"), filename |-> UploadName(<<"clip">>, "mp4")]}
JsonFiles ==
    {[data |-> d, filename |-> UploadName(<<"data">>, "json")] :
        d \in {Raw(flat_data, "small"), Raw(nested_data, "small"),
               Raw(List(<<flat_data>>), "small"), Raw(Scalar("number"), "small"),
               Raw(Garbage, "small")}}
OtherFiles == {[data |-> Bytes("text"), filename |-> UploadName(<<"notes">>, "txt")]}

\* Entries of archives: two media files, one of them in a folder, a text
\* file, a folder, and a resource fork as macOS adds them.
ZipEntries ==
    {ZipEntry("", <<"cat">>, "jpg", Bytes("pixels")),
     ZipEntry("photos/", <<"clip">>, "mp4", Bytes("frames")),
     ZipEntry("", <<"notes">>, "txt", Bytes("text")),
     ZipEntry("photos/", <<>>, "", Bytes("")),
     ZipEntry("__MACOSX/", <<"._cat">>, "jpg", Bytes("fork"))}

\* Archives of at most n entries, and a file that is no archive.
ZipFiles(n) ==
    {[data |-> [ok |-> TRUE, entries |-> es], filename |-> UploadName(<<"album">>, "zip")] :
        es \in UNION {[1..k -> ZipEntries] : k \in 0..n}}
    \cup {[data |-> [ok |-> FALSE, entries |-> <<>>],
           filename |-> UploadName(<<"album">>, "zip")]}

\* filename.split('.')[-1].lower() if '.' in filename else None
Extension(filename) == IF filename.ext = "" THEN "None" ELSE Lower(filename.ext)

uploadFrame == <<clock, schemaDir, tempDir, sqlDb, nosqlDb, pc, req, cin, cout, procs,
                 frame, json_type, listing>>

\* POST /upload/: upload_files(file).  The handlers return dicts with the
\* keys filename, local_path and online_url; the endpoint reads public_id,
\* secure_url and resource_type from them, which raises KeyError.  The
\* HTTPException of the last branch is raised inside the try and is caught by
\* `except Exception`.
upload_files(file, remoteOk) ==
    /\ uploads < MaxRequests
    /\ uploads' = uploads + 1
    /\ LET extension == Extension(file.filename)
       IN  IF extension = "zip"
           THEN \E o \in {handle_zip_upload(mode, file, remoteOk)} :
                    /\ mediaDir' = o.mediaDir
                    /\ remote' = o.remote
                    /\ last' = [kind |-> "zip", file |-> file, raised |-> o.raised,
                                result |-> o.result, written |-> o.written]
                    /\ response' =
                          IF o.raised = "ValueError"
                          THEN [status |-> 400, detail |-> "Invalid ZIP file"]
                          ELSE IF o.result = <<>>
                          THEN [status |-> 201,
                                message |-> "ZIP processed, but no valid media files were found."]
                          ELSE [status |-> 500,
                                detail |-> "An internal error occurred: 'public_id'"]
           ELSE IF extension \in ALLOWED_IMAGE_EXTENSIONS \cup ALLOWED_VIDEO_EXTENSIONS
           THEN \E o \in {handle_file_upload(mode, file, remoteOk[1])} :
                    /\ mediaDir' = o.mediaDir
                    /\ remote' = o.remote
                    /\ last' = [kind |-> "media", file |-> file, raised |-> o.raised,
                                result |-> o.result, written |-> o.written]
                    /\ response' =
                          IF o.raised = "ValueError"
                          THEN [status |-> 400, detail |-> "Cloudinary upload failed"]
                          ELSE [status |-> 500,
                                detail |-> "An internal error occurred: 'public_id'"]
           ELSE /\ UNCHANGED <<mediaDir, remote>>
                /\ last' = [kind |-> "unsupported", file |-> file, raised |-> "HTTPException",
                            result |-> <<>>, written |-> {}]
                /\ response' = [status |-> 500,
                                detail |-> "An internal error occurred: 400: Unsupported file type."]
    /\ UNCHANGED <<uploadFrame, mode, sqlDir, nosqlDir>>

\* A call of handle_json_upload(file).
call_handle_json_upload(file, remoteOk) ==
    /\ uploads < MaxRequests
    /\ uploads' = uploads + 1
    /\ \E o \in {handle_json_upload(mode, file, remoteOk)} :
           /\ sqlDir' = o.sqlDir
           /\ nosqlDir' = o.nosqlDir
           /\ remote' = o.remote
           /\ last' = [kind |-> "json", file |-> file, raised |-> o.raised,
                       result |-> o.result, remoteOk |-> remoteOk]
    /\ UNCHANGED <<uploadFrame, mode, mediaDir, response>>

\* The ways the uploads of the entries of an archive can go: one outcome for
\* each entry that is uploaded.
UploadOutcomes(file) ==
    {ok \in [1..Len(file.data.entries) -> BOOLEAN] :
        \A i \in 1..Len(file.data.entries) :
            (\/ IsSkippedEntry(file.data.entries[i])
             \/ Lower(file.data.entries[i].filename.ext)
                    \notin ALLOWED_IMAGE_EXTENSIONS \cup ALLOWED_VIDEO_EXTENSIONS)
            => ok[i]}

NextUpload ==
    \/ \E file \in ZipFiles(MaxEntries) :
          \E remoteOk \in UploadOutcomes(file) : upload_files(file, remoteOk)
    \/ \E file \in MediaFiles \cup JsonFiles \cup OtherFiles, ok \in BOOLEAN :
          upload_files(file, <<ok>>)
    \/ \E file \in JsonFiles, remoteOk \in BOOLEAN : call_handle_json_upload(file, remoteOk)

SpecUpload == Init /\ [][NextUpload]_vars

----------------------------------------------------------------------------
(* GET /files (app/routers/files_router.py): get_all_files without type or *)
(* category, on top of list_json_files (app/routers/json_routes.py).  The   *)
(* answer is a list without repeated ids; it is kept as the bag of its      *)
(* entries, and listing.after is the number of requests it was taken after. *)

\* dict.get(key): the value, or None
None == <<>>
DictHas(d, key) == key \in DOMAIN d

\* list_json_files(category): the data files of the two directories with
\* their sidecars; glob("*.json") without .meta.json and .schema.json.
JsonFileEntries(dir, bucket) ==
    {[filename |-> n,
      metadata |-> get_file_metadata(dir, n),
      local_url |-> <<"/files/json", bucket, n>>] :
        n \in {m \in DOMAIN dir : IsDataFileName(m)}}

list_json_files(category) ==
    IF category = "sql" THEN JsonFileEntries(sqlDir, "sql")
    ELSE IF category = "nosql" THEN JsonFileEntries(nosqlDir, "nosql")
    ELSE JsonFileEntries(sqlDir, "sql") \cup JsonFileEntries(nosqlDir, "nosql")

\* The local JSON part of get_all_files: the id of an entry is
\* file["metadata"].get("file_hash"), and an entry without id is left out.
LocalJsonFiles ==
    {[name |-> file.filename, type |-> "json", source |-> "local",
      id |-> file.metadata.file_hash, content_url |-> file.local_url] :
        file \in {f \in list_json_files("all") : DictHas(f.metadata, "file_hash")}}

\* The MongoDB part: the documents of the collections sql_data and
\* nosql_data.  _store_in_nosql inserts into a collection named after the
\* upload, {stem}_{timestamp}.
MongoCollections == {<<"sql_data">>, <<"nosql_data">>}
MongoJsonFiles ==
    {[name |-> doc.name, type |-> "json", source |-> "mongo", id |-> doc,
      content_url |-> <<"/json/content", doc>>] :
        doc \in {d \in BagToSet(nosqlDb) :
                    \E c \in MongoCollections : Len(d.name) = Len(c) /\ d.name = c}}

\* The media part: the files under storage/images and storage/videos and the
\* Cloudinary resources under images/ and videos/.
LocalMediaFiles ==
    {[name |-> p[3], type |-> IF p[1] = "images" THEN "image" ELSE "video",
      source |-> "local", id |-> <<"local_", p[3]>>, content_url |-> <<"/files", p>>] :
        p \in DOMAIN mediaDir}
CloudinaryMediaFiles ==
    {[name |-> k, type |-> IF k[1][1] = "images" THEN "image" ELSE "video",
      source |-> "cloudinary", id |-> <<"cloudinary_", k>>,
      content_url |-> SecureUrl(k[1], k[2])] :
        k \in {r \in DOMAIN remote : r[1][1] \in {"images", "videos"}}}

\* get_all_files(type=None, category=None) under STORAGE_MODE storage_mode
AllFiles(storage_mode) ==
    (IF storage_mode \in OnlineModes THEN MongoJsonFiles \cup CloudinaryMediaFiles ELSE {})
    \cup (IF storage_mode \in LocalModes THEN LocalJsonFiles \cup LocalMediaFiles ELSE {})

get_all_files ==
    /\ pc = "idle"
    /\ listing.after # uploads
    /\ listing' = [after |-> uploads, files |-> SetToBag(AllFiles(mode))]
    /\ UNCHANGED <<mode, clock, sqlDir, nosqlDir, schemaDir, tempDir, remote, sqlDb,
                   nosqlDb, pc, req, response, last, uploads, cin, cout, procs,
                   frame, json_type, mediaDir>>

NextFiles == Next \/ get_all_files

SpecFiles == Init /\ [][NextFiles]_vars

----------------------------------------------------------------------------
(* Properties of the store, checked under Spec.                            *)

\* The step in which upload_json analyses and stores the saved upload.
StoreStep == pc = "saved" /\ pc' = "idle"

Stored == pc = "idle" /\ last.kind = "store"

\* A data file holding these bytes is in the bucket of this recommendation.
AlreadyStored(raw, recommendation) ==
    \E n \in DOMAIN BucketDir(recommendation) :
        IsDataFileName(n) /\ BucketDir(recommendation)[n] = raw

\* C1: in local mode, storing valid JSON whose bytes are already stored in its
\* bucket returns duplicate=true and leaves the bucket directories and the
\* sidecars as they were.
C1_ResubmissionIsIdempotent ==
    [][(/\ StoreStep
        /\ mode = "local"
        /\ JsonLoad(req.content).ok
        /\ AlreadyStored(req.content, last'.analysis.recommendation)
        /\ last'.result.success)
       => (/\ last'.result.duplicate
           /\ sqlDir' = sqlDir
           /\ nosqlDir' = nosqlDir
           /\ schemaDir' = schemaDir)]_vars

\* C2: an upload that is not valid JSON fails, and when it has failed no data
\* file, no sidecar and no remote upload has been added.
C2_InvalidJsonRejectedBeforeWrite ==
    [][(StoreStep /\ ~JsonLoad(req.content).ok)
       => (/\ ~last'.result.success
           /\ response'.status # 200
           /\ sqlDir' = sqlDir
           /\ nosqlDir' = nosqlDir
           /\ schemaDir' = schemaDir
           /\ remote' = remote)]_vars

\* C3: once the upload has returned its outcome, on whatever path, the
\* temporary input file no longer exists.
C3_TempInputCleanedUp ==
    Stored => TempFile(last.filename) \notin DOMAIN tempDir

\* A non-duplicate store that succeeded: only the final unlink removes the
\* temporary file on this path.
C3_Witness ==
    /\ Stored
    /\ last.result.success
    /\ ~last.result.duplicate
    /\ TempFile(last.filename) \notin DOMAIN tempDir

\* C4: in mode 'online', a store whose remote upload fails returns
\* success=false with an error and writes nothing to the bucket and schema
\* directories.
C4_RemoteOnlyHardFailure ==
    [][(StoreStep /\ mode = "online" /\ last'.failed)
       => (/\ ~last'.result.success
           /\ "error" \in DOMAIN last'.result
           /\ response'.status = 500
           /\ sqlDir' = sqlDir
           /\ nosqlDir' = nosqlDir
           /\ schemaDir' = schemaDir)]_vars

C4_Witness ==
    /\ Stored
    /\ mode = "online"
    /\ last.tried
    /\ last.failed
    /\ ~last.result.success

\* The outcomes the same call can have with STORAGE_MODE=local, where there is
\* no remote leg.
LocalOnlyResults(filename, analysis) ==
    {StoreIn("local", TempFile(filename), filename, analysis, e).result :
        e \in StoreEnvs(Duplicates(TempFile(filename), analysis))}

\* C5: in mode 'both', when only the remote upload fails, the store returns
\* success=true with no remote location, the local data file is in the
\* recommended bucket, and the outcome tells the caller that the remote leg
\* failed: it is not an outcome a store without a remote leg returns.
C5_DegradedSuccessIsIndicated ==
    [][(StoreStep /\ mode = "both" /\ last'.failed /\ JsonLoad(req.content).ok)
       => (/\ last'.result.success
           /\ last'.result.online_url = NoUrl
           /\ last'.result.stored_name \in
                 DOMAIN (IF last'.analysis.recommendation = "sql"
                         THEN sqlDir' ELSE nosqlDir')
           /\ last'.result \notin LocalOnlyResults(req.filename, last'.analysis))]_vars

\* C6: each bucket directory holds at most one data file per content
\* fingerprint.
C6_OneRecordPerFingerprint ==
    \A recommendation \in {"sql", "nosql"} :
        \A n1, n2 \in DOMAIN BucketDir(recommendation) :
            (/\ IsDataFileName(n1)
             /\ IsDataFileName(n2)
             /\ _get_file_hash(BucketDir(recommendation)[n1])
                    = _get_file_hash(BucketDir(recommendation)[n2]))
            => n1 = n2

C8_NoSuccessWithoutPersistence ==
    (Stored /\ last.result.success /\ ~last.result.duplicate)
    => (last.result.local_path # NoPath \/ last.result.online_url # NoUrl)

\* The recommendation for each content that reaches the classifier through
\* upload_json, as a function of the bytes alone.
RecommendationOf(raw) ==
    IF raw = Raw(flat_data, "small") THEN "sql"
    ELSE IF raw = Raw(nested_data, "small") THEN "nosql"
    ELSE IF raw = Raw(Garbage, "small") THEN "nosql"
    ELSE "none"

\* C14: the recommendation an upload gets is a function of its bytes alone:
\* whatever the file name, the storage mode, the contents of the bucket
\* directories and the operations that came before, the same bytes get the
\* same recommendation.
C14_ClassifierDeterministic ==
    Stored => last.analysis.recommendation = RecommendationOf(last.raw)

\* The flat document classified and stored a second time, its first record
\* already in the sql bucket.
C14_Witness ==
    /\ Stored
    /\ last.raw = Raw(flat_data, "small")
    /\ last.analysis.recommendation = "sql"
    /\ last.result.success
    /\ \E n \in DOMAIN sqlDir :
          /\ n # last.result.stored_name
          /\ n.ext = ".json"
          /\ sqlDir[n] = last.raw

\* The 32 digits of the fingerprint occur in the name of a data file of the
\* bucket.
RecordFound(file_hash, recommendation) ==
    \E n \in DOMAIN BucketDir(recommendation) :
        n.ext = ".json" /\ n.stem.embed = file_hash

\* C15: when the duplicate detector finds a record for the fingerprint in the
\* bucket, the store returns success=true and duplicate=true with the name
\* and path of a record that exists, and leaves the bucket directories, the
\* schema directory, the remote store and both databases as they were; it
\* only deletes the temporary input.
C15_DuplicateWritesNothing ==
    [][(/\ StoreStep
        /\ RecordFound(_get_file_hash(req.content), last'.analysis.recommendation))
       => LET r == last'.result
              recommendation == last'.analysis.recommendation
          IN  /\ r.success
              /\ r.duplicate
              /\ r.stored_name \in DOMAIN BucketDir(recommendation)
              /\ r.stored_name.ext = ".json"
              /\ r.stored_name.stem.embed = _get_file_hash(req.content)
              /\ r.final_path = <<BucketPath(recommendation), r.stored_name>>
              /\ sqlDir' = sqlDir
              /\ nosqlDir' = nosqlDir
              /\ schemaDir' = schemaDir
              /\ remote' = remote
              /\ sqlDb' = sqlDb
              /\ nosqlDb' = nosqlDb
              /\ DOMAIN tempDir' = DOMAIN tempDir \ {TempFile(req.filename)}
              /\ \A f \in DOMAIN tempDir' : tempDir'[f] = tempDir[f]]_vars

C15_Witness ==
    /\ Stored
    /\ last.result.success
    /\ last.result.duplicate
    /\ last.result.stored_name \in DOMAIN sqlDir
    /\ TempFile(last.filename) \notin DOMAIN tempDir

\* Data files and sidecars of the bucket directories.
DataFiles(dir) == {n \in DOMAIN dir : n.ext \in {".json", ".JSON"}}
MetaFiles(dir) == {n \in DOMAIN dir : n.ext = ".meta.json"}

\* Every data file has its .meta.json beside it and its .schema.json in the
\* schema directory, and every sidecar has its data file.
SidecarsMatchRecords ==
    /\ \A dir \in {sqlDir, nosqlDir} :
          /\ \A n \in DataFiles(dir) :
                /\ [n EXCEPT !.ext = ".meta.json"] \in DOMAIN dir
                /\ [n EXCEPT !.ext = ".schema.json"] \in DOMAIN schemaDir
          /\ \A m \in MetaFiles(dir) :
                \E n \in DataFiles(dir) : m = [n EXCEPT !.ext = ".meta.json"]
    /\ \A k \in DOMAIN schemaDir :
          \E n \in DataFiles(sqlDir) \cup DataFiles(nosqlDir) :
              k = [n EXCEPT !.ext = ".schema.json"]

\* C16: a store operation in which no sidecar write fails keeps data files and
\* sidecars one to one, and writes no sidecar in mode 'online'.
C16_SidecarsOneToOne ==
    [][(StoreStep /\ ~last'.unsaved /\ SidecarsMatchRecords)
       => (/\ SidecarsMatchRecords'
           /\ mode = "online" => schemaDir' = schemaDir)]_vars

\* The results the same call returns when no sidecar write fails, the copy
\* and the upload going as they went.
ResultsWithSidecars(filename, analysis, failed) ==
    {StoreWith(TempFile(filename), filename, analysis, e).result :
        e \in {x \in StoreEnvs(Duplicates(TempFile(filename), analysis)) :
                  x.sidecar = "none" /\ x.copyOk /\ (x.remoteOk <=> ~failed)}}

\* C17: when a write of the metadata or schema sidecar fails, the store
\* returns the success outcome it returns when none fails, the data file it
\* wrote and the remote upload are in place, and the temporary input is gone.
C17_SidecarFailureTolerated ==
    [][(StoreStep /\ last'.unsaved)
       => LET r == last'.result
              dirAfter == IF last'.analysis.recommendation = "sql"
                          THEN sqlDir' ELSE nosqlDir'
              folder == IF last'.analysis.recommendation = "sql"
                        THEN <<"json", "sql">> ELSE <<"json", "nosql">>
          IN  /\ r.success
              /\ response'.status = 200
              /\ r \in ResultsWithSidecars(req.filename, last'.analysis, last'.failed)
              /\ r.stored_name \in DOMAIN dirAfter
              /\ dirAfter[r.stored_name] = req.content
              /\ r.online_url # NoUrl
                    => /\ <<folder, PublicId(r.stored_name)>> \in DOMAIN remote'
                       /\ remote'[<<folder, PublicId(r.stored_name)>>] = req.content
              /\ TempFile(req.filename) \notin DOMAIN tempDir']_vars

\* The metadata write failed in mode 'both' after the upload went through.
C17_Witness ==
    /\ Stored
    /\ last.unsaved
    /\ mode = "both"
    /\ last.result.success
    /\ last.result.online_url # NoUrl
    /\ last.result.stored_name \in DOMAIN sqlDir
    /\ [last.result.stored_name EXCEPT !.ext = ".meta.json"] \notin DOMAIN sqlDir

\* These bytes are in the remote store under the folder of the bucket.
AlreadyUploaded(raw, recommendation) ==
    \E k \in DOMAIN remote :
        /\ k[1] = (IF recommendation = "sql" THEN <<"json", "sql">> ELSE <<"json", "nosql">>)
        /\ remote[k] = raw

\* C20: in mode 'online', storing valid JSON whose bytes were uploaded to the
\* bucket's folder before returns duplicate=true without a second upload, and
\* the remote store is as it was.
C20_RemoteResubmissionIsIdempotent ==
    [][(/\ StoreStep
        /\ mode = "online"
        /\ JsonLoad(req.content).ok
        /\ AlreadyUploaded(req.content, last'.analysis.recommendation)
        /\ last'.result.success)
       => (/\ last'.result.duplicate
           /\ ~last'.tried
           /\ remote' = remote)]_vars


\* C21: a non-duplicate store names the file {stem}_{timestamp}_{first eight
\* digits of the fingerprint}{extension}, reports the fingerprint of the
\* bytes stored under that name, and the name is one in which the duplicate
\* detector finds that fingerprint.
C21_StoredNameEmbedsFingerprint ==
    (Stored /\ last.result.success /\ ~last.result.duplicate)
    => LET r == last.result
       IN  /\ r.stored_name = [stem |-> last.filename.stem, ts |-> r.timestamp,
                               hash8 |-> <<"md5[:8]", last.raw>>,
                               ext |-> last.filename.ext]
           /\ r.file_hash = <<"md5", last.raw>>
           /\ r.local_path # NoPath
                 => BucketDir(last.analysis.recommendation)[r.stored_name] = last.raw
           /\ r.stored_name.ext = ".json"
           /\ r.stored_name.stem.embed = r.file_hash

\* The sidecar of the file a store reports, read back.
SidecarReadBack == get_file_metadata(BucketDir(last.analysis.recommendation),
                                     last.result.stored_name)

----------------------------------------------------------------------------
(* Properties of uploads in flight at the same time, checked under         *)
(* SpecConc.                                                               *)

Finished(u) == procs[u].pc = "done"

\* The data file or remote artifact a finished store reports holds these
\* bytes.
ReportedCopiesHold(result, recommendation, bytes) ==
    /\ result.local_path # NoPath
          => /\ result.stored_name \in DOMAIN BucketDir(recommendation)
             /\ BucketDir(recommendation)[result.stored_name] = bytes
    /\ result.online_url # NoUrl
          => \E k \in DOMAIN remote :
                k[2] = PublicId(result.stored_name) /\ remote[k] = bytes

\* C18: of two uploads of different contents handled at the same time, under
\* the same file name or not, each one that has finished has succeeded, was
\* classified as its own bytes are, and reports the fingerprint of its own
\* bytes and copies that hold them.
C18_ConcurrentUploadsIndependent ==
    \A u, v \in Uploaders :
        (/\ u # v
         /\ Finished(u)
         /\ procs[v].pc # "start"
         /\ procs[u].content # procs[v].content)
        => (/\ procs[u].result.success
            /\ procs[u].analysis \in analyze_json_file(TRUE, procs[u].content)
            /\ ~procs[u].result.duplicate
                  => /\ procs[u].result.file_hash = <<"md5", procs[u].content>>
                     /\ ReportedCopiesHold(procs[u].result,
                                           procs[u].analysis.recommendation,
                                           procs[u].content))

\* C19: when two uploads of the same content handled at the same time have
\* both finished, both have succeeded, the bucket (when the mode keeps local
\* copies) holds one or two records of that content, and every data file
\* holds the whole of an uploaded content, tagged with the first eight digits
\* of its fingerprint.
C19_DuplicateRaceHarmless ==
    \A u, v \in Uploaders :
        (/\ u # v
         /\ Finished(u)
         /\ Finished(v)
         /\ procs[u].content = procs[v].content)
        => (/\ procs[u].result.success
            /\ procs[v].result.success
            /\ mode \in {"local", "both"}
                  => Cardinality({n \in DOMAIN BucketDir(procs[u].analysis.recommendation) :
                         /\ n.ext = ".json"
                         /\ BucketDir(procs[u].analysis.recommendation)[n] = procs[u].content})
                       \in {1, 2}
            /\ \A dir \in {sqlDir, nosqlDir} :
                  \A n \in DOMAIN dir :
                      n.ext = ".json"
                      => /\ dir[n] = procs[u].content
                         /\ n.hash8 = <<"md5[:8]", dir[n]>>)

----------------------------------------------------------------------------
(* Properties of the classifier, checked under SpecClassify.               *)

Classified == cout # NoAnalysis /\ cin.exists

\* A dict none of whose values is a dict or a list.
IsFlatObject(v) ==
    v.t = "dict" /\ \A i \in 1..Len(v.kids) : v.kids[i].t \notin {"dict", "list"}

MaxOfSet(S) == CHOOSE m \in S : \A x \in S : x <= m

\* The number of container levels below a value, bottom up.
RECURSIVE NestingDepth(_)
NestingDepth(v) ==
    LET inner == {i \in 1..Len(v.kids) : v.kids[i].t \in {"dict", "list"}}
    IN  IF inner = {} THEN 0
        ELSE 1 + MaxOfSet({NestingDepth(v.kids[i]) : i \in inner})

\* C9: a top-level object of at most 10 MB none of whose values is an object
\* or array (the empty object included) is recommended 'sql', with its keys in
\* document order.
C9_FlatObjectsRowOriented ==
    (Classified /\ cin.raw.size = "small" /\ IsFlatObject(cin.raw.doc))
    => (/\ cout.recommendation = "sql"
        /\ "keys" \in DOMAIN cout
        /\ cout.keys = cin.raw.doc.keys)

C9_Witness ==
    /\ Classified
    /\ cin.raw = Raw(Dict(<<"id", "name">>, <<Scalar("number"), Scalar("string")>>), "small")
    /\ cout.recommendation = "sql"
    /\ cout.keys = <<"id", "name">>

\* C9 as claimed: every top-level object none of whose values is an object or
\* array is recommended 'sql', with its keys in document order.
C9_AnyFlatObjectRowOriented ==
    (Classified /\ IsFlatObject(cin.raw.doc))
    => (/\ cout.recommendation = "sql"
        /\ "keys" \in DOMAIN cout
        /\ cout.keys = cin.raw.doc.keys)

\* C10: a top-level object of at most 10 MB with a value that is an object or
\* array is recommended 'nosql', and the nesting level reported is at least 1
\* and is the maximum container nesting depth of the object.
C10_NestedObjectsDocumentOriented ==
    (/\ Classified
     /\ cin.raw.size = "small"
     /\ cin.raw.doc.t = "dict"
     /\ ~IsFlatObject(cin.raw.doc))
    => (/\ cout.recommendation = "nosql"
        /\ "nesting_level" \in DOMAIN cout
        /\ cout.nesting_level >= 1
        /\ cout.nesting_level = NestingDepth(cin.raw.doc))

\* An object whose members nest to different depths, the deeper one first.
C10_Witness ==
    /\ Classified
    /\ cin.raw = Raw(Dict(<<"profile", "id">>,
                          <<Dict(<<"name">>, <<Dict(<<>>, <<>>)>>), List(<<>>)>>),
                     "small")
    /\ cout.nesting_level = 2

\* C10 as claimed: every top-level object with a value that is an object or
\* array is recommended 'nosql' with the nesting level reported as above.
C10_AnyNestedObjectReportsDepth ==
    (Classified /\ cin.raw.doc.t = "dict" /\ ~IsFlatObject(cin.raw.doc))
    => (/\ cout.recommendation = "nosql"
        /\ "nesting_level" \in DOMAIN cout
        /\ cout.nesting_level >= 1
        /\ cout.nesting_level = NestingDepth(cin.raw.doc))

----------------------------------------------------------------------------
(* Properties of the classifier on arrays, checked under SpecArrays and    *)
(* SpecClassify.                                                           *)

\* The elements _analyze_array looks at: the first ten.
SampledElements(v) == SubSeq(v.kids, 1, IF Len(v.kids) < 10 THEN Len(v.kids) ELSE 10)

KeySet(v) == {v.keys[i] : i \in 1..Len(v.keys)}

\* A non-empty array whose sampled elements are all objects with the same
\* key set, the first of them with scalar values only.
IsUniformFlatSample(v) ==
    /\ v.t = "list"
    /\ v.kids # <<>>
    /\ \A i \in 1..Len(SampledElements(v)) :
          /\ SampledElements(v)[i].t = "dict"
          /\ KeySet(SampledElements(v)[i]) = KeySet(v.kids[1])
    /\ IsFlatObject(v.kids[1])

\* A key that is id or _id as written, and one that is so in any letter case.
SpelledId(k) == k \in {"id", "_id"}
SpelledIdAnyCase(k) == k \in {"id", "_id", "ID", "Id", "iD", "_ID", "_Id", "_iD"}
SpelledForeignKey(k) == k \in {"_id", "user_id"}

\* C11: for a non-empty array in a file of at most 10 MB whose sampled
\* elements are all objects with identical key sets and whose first element
\* has only scalar values, the recommendation is 'sql' exactly when the key
\* count is at most 50 and a key equal to id or _id in any letter case is
\* present, or a key ending in _id is present, or the key count is at most 20;
\* then the columns are the key set and estimated_rows is the length of the
\* whole array; otherwise the recommendation is 'nosql'.
C11_ArrayRowHeuristic ==
    (Classified /\ cin.raw.size = "small" /\ IsUniformFlatSample(cin.raw.doc))
    => LET K == KeySet(cin.raw.doc.kids[1])
           qualifies ==
               /\ Cardinality(K) <= 50
               /\ \/ \E k \in K : SpelledIdAnyCase(k)
                  \/ \E k \in K : SpelledForeignKey(k)
                  \/ Cardinality(K) <= 20
       IN  IF qualifies
           THEN /\ cout.recommendation = "sql"
                /\ cout.columns = K
                /\ cout.estimated_rows = Len(cin.raw.doc.kids)
           ELSE cout.recommendation = "nosql"

\* Fifty columns, the first a foreign key, eleven rows of which the last, past
\* the sample, is no object: recommended 'sql' with all eleven rows counted.
C11_Witness ==
    /\ Classified
    /\ cin.raw = Raw(Table(Row(50, "user_id"), 11, 11, Scalar("string")), "small")
    /\ cout.recommendation = "sql"
    /\ cout.estimated_rows = 11
    /\ Cardinality(cout.columns) = 50

\* C11 as claimed: for every such array, whatever the size of its file, with
\* the identifier key spelled id or _id.
C11_AnyArrayRowHeuristic ==
    (Classified /\ IsUniformFlatSample(cin.raw.doc))
    => LET K == KeySet(cin.raw.doc.kids[1])
           qualifies ==
               /\ Cardinality(K) <= 50
               /\ \/ \E k \in K : SpelledId(k)
                  \/ \E k \in K : SpelledForeignKey(k)
                  \/ Cardinality(K) <= 20
       IN  IF qualifies
           THEN /\ cout.recommendation = "sql"
                /\ cout.columns = K
                /\ cout.estimated_rows = Len(cin.raw.doc.kids)
           ELSE cout.recommendation = "nosql"

\* Two of the sampled elements are objects with different key sets.
IsNonUniformSample(v) ==
    /\ v.t = "list"
    /\ \E i, j \in 1..Len(SampledElements(v)) :
          /\ SampledElements(v)[i].t = "dict"
          /\ SampledElements(v)[j].t = "dict"
          /\ KeySet(SampledElements(v)[i]) # KeySet(SampledElements(v)[j])

\* C12: an array in which two of the first ten elements have different key
\* sets is recommended 'nosql', whatever its keys, nesting and file size.
C12_NonUniformArraysDocumentOriented ==
    (Classified /\ IsNonUniformSample(cin.raw.doc))
    => (/\ cout.recommendation = "nosql"
        /\ "columns" \notin DOMAIN cout)

\* Ten flat rows of twenty columns with an id, the tenth with one column
\* under another name.
C12_Witness ==
    /\ Classified
    /\ cin.raw = Raw(Table(Row(20, "id"), 10, 10, Renamed(Row(20, "id"))), "small")
    /\ cout = [recommendation |-> "nosql", reason |-> <<"Variable structure">>]

\* A top-level scalar or the empty array.
IsDegenerate(v) ==
    \/ v.t \in {"number", "string", "boolean", "null"}
    \/ v.t = "list" /\ v.kids = <<>>

\* The reason wordings of the classifier that mention 'empty'.
MentionsEmpty(reason) == reason = <<"Empty array">>

\* C13: a top-level scalar and the empty array are recommended 'nosql' with
\* no column or key list; the empty array, in a file of at most 10 MB, with a
\* reason that mentions 'empty'.
C13_DegenerateValuesDocumentOriented ==
    (Classified /\ IsDegenerate(cin.raw.doc))
    => (/\ cout.recommendation = "nosql"
        /\ "columns" \notin DOMAIN cout
        /\ "keys" \notin DOMAIN cout
        /\ (cin.raw.doc.t = "list" /\ cin.raw.size = "small")
              => MentionsEmpty(cout.reason))

C13_Witness ==
    /\ Classified
    /\ cin.raw = Raw(List(<<>>), "small")
    /\ cout = [recommendation |-> "nosql", reason |-> <<"Empty array">>]

\* C13 as claimed: the empty array has a reason that mentions 'empty'
\* whatever the size of its file.
C13_AnyEmptyArrayMentionsEmpty ==
    (Classified /\ IsDegenerate(cin.raw.doc))
    => (/\ cout.recommendation = "nosql"
        /\ "columns" \notin DOMAIN cout
        /\ "keys" \notin DOMAIN cout
        /\ cin.raw.doc.t = "list" => MentionsEmpty(cout.reason))

\* The array cut after the elements _analyze_array looks at.
SampledArray(v) == List(SampledElements(v))

\* What the classifier returns for a file of at most 10 MB that holds only
\* the sampled elements of v.
SampleResults(v) == analyze_json_file(TRUE, Raw(SampledArray(v), "small"))

\* r and s differ at most in estimated_rows.
SameButRowCount(r, s) ==
    /\ DOMAIN r = DOMAIN s
    /\ \A k \in DOMAIN r \ {"estimated_rows"} : r[k] = s[k]

\* C25: in a file of at most 10 MB, an array one of whose first ten elements
\* is not an object is recommended 'nosql', and every array gets the result
\* of the array made of its first ten elements alone, up to estimated_rows,
\* which is the length of the whole array.
C25_OnlySampleInspected ==
    (Classified /\ cin.raw.size = "small" /\ cin.raw.doc.t = "list")
    => LET v == cin.raw.doc
       IN  /\ (\E i \in 1..Len(SampledElements(v)) : SampledElements(v)[i].t # "dict")
                 => cout.recommendation = "nosql"
           /\ \A r \in SampleResults(v) :
                 /\ r.recommendation = cout.recommendation
                 /\ SameButRowCount(r, cout)
           /\ "estimated_rows" \in DOMAIN cout => cout.estimated_rows = Len(v.kids)

\* Eleven flat rows with an id, and after them something that is not a row:
\* still a table, of eleven rows.
C25_Witness ==
    /\ Classified
    /\ cin.raw.size = "small"
    /\ Len(cin.raw.doc.kids) = 11
    /\ cin.raw.doc.kids[11].t # "dict"
    /\ IsUniformFlatSample(cin.raw.doc)
    /\ cout.recommendation = "sql"
    /\ cout.estimated_rows = 11
    /\ \E r \in SampleResults(cin.raw.doc) : r.estimated_rows = 10

\* C25 as claimed: whatever the later elements are, and however large they
\* make the file, the recommendation is that of the first ten elements.
C25_LaterElementsNeverMatter ==
    (Classified /\ cin.raw.doc.t = "list" /\ Len(cin.raw.doc.kids) > 10)
    => \A r \in SampleResults(cin.raw.doc) : r.recommendation = cout.recommendation

----------------------------------------------------------------------------
(* Properties of nested documents, checked under SpecArrays.              *)

\* An object one of whose field values is an object or an array.
HasContainerField(v) ==
    v.t = "dict" /\ \E i \in 1..Len(v.kids) : IsContainer(v.kids[i])

\* A top-level object with a container-valued field, or an array of objects
\* one of which has a container-valued field.
IsNestedDocument(v) ==
    \/ HasContainerField(v)
    \/ /\ v.t = "list"
       /\ \A i \in 1..Len(v.kids) : v.kids[i].t = "dict"
       /\ \E i \in 1..Len(v.kids) : HasContainerField(v.kids[i])

\* C23: a document in which any field value of the object, or of any element
\* of the array, is an object or an array is recommended 'nosql'.
C23_AnyNestingDocumentOriented ==
    (Classified /\ IsNestedDocument(cin.raw.doc))
    => cout.recommendation = "nosql"

----------------------------------------------------------------------------
(* Properties of the order of the statements of one upload, checked under  *)
(* SpecSteps.                                                              *)

\* The place of a statement in the order classification, fingerprint,
\* duplicate check, persistence (copy, upload, database), sidecar, deletion.
Rank(step) ==
    CASE step = "save" -> 0
      [] step = "classify" -> 1
      [] step = "hash" -> 2
      [] step = "check" -> 3
      [] step \in {"copy", "upload", "db"} -> 4
      [] step = "sidecar" -> 5
      [] step = "unlink" -> 6

StepsDone(t) == {t[i] : i \in 1..Len(t)}

\* A file with an extension `ext` is new or has new contents in dir2.
Written(dir1, dir2, ext) ==
    \E n \in DOMAIN dir2 :
        /\ n.ext = ext
        /\ n \in DOMAIN dir1 => dir2[n] # dir1[n]

\* What a step does to the stores.
Persists ==
    \/ Written(sqlDir, sqlDir', ".json")
    \/ Written(nosqlDir, nosqlDir', ".json")
    \/ remote' # remote
    \/ sqlDb' # sqlDb
    \/ nosqlDb' # nosqlDb
WritesSidecar ==
    \/ Written(sqlDir, sqlDir', ".meta.json")
    \/ Written(nosqlDir, nosqlDir', ".meta.json")
    \/ schemaDir' # schemaDir
DeletesTemp ==
    \E n \in DOMAIN tempDir : n \notin DOMAIN tempDir'

\* C24: within one upload every statement that runs runs after the
\* statements of every earlier stage have finished: classification, then the
\* fingerprint, then the duplicate check, then the copies and inserts, then
\* the sidecar, then the deletion of the temporary file; and the stores, the
\* sidecar and the temporary file change only in their own stage.
C24_StepsInOrder ==
    [][/\ \A i, j \in 1..Len(frame'.trace) :
             i < j => \/ Rank(frame'.trace[i]) < Rank(frame'.trace[j])
                      \/ /\ Rank(frame'.trace[i]) = Rank(frame'.trace[j])
                         /\ frame'.trace[i] # frame'.trace[j]
       /\ Persists => /\ {"classify", "hash", "check"} \subseteq StepsDone(frame.trace)
                      /\ StepsDone(frame.trace) \cap {"sidecar", "unlink"} = {}
       /\ WritesSidecar =>
             /\ {"classify", "hash", "check", "copy", "db"} \subseteq StepsDone(frame.trace)
             /\ mode \in OnlineModes => "upload" \in StepsDone(frame.trace)
             /\ "unlink" \notin StepsDone(frame.trace)
       /\ DeletesTemp =>
             /\ {"classify", "hash", "check"} \subseteq StepsDone(frame.trace)
             /\ (frame.pc = "unlink" /\ ~frame.result.duplicate)
                   => /\ "db" \in StepsDone(frame.trace)
                      /\ mode \in LocalModes =>
                            {"copy", "sidecar"} \subseteq StepsDone(frame.trace)
                      /\ mode \in OnlineModes => "upload" \in StepsDone(frame.trace)
      ]_vars

\* An upload in mode 'both' that ran every statement and left the sidecar
\* and no temporary file.
C24_Witness ==
    /\ mode = "both"
    /\ frame.pc = "done"
    /\ frame.trace = <<"save", "classify", "hash", "check", "copy", "upload", "db",
                       "sidecar", "unlink">>
    /\ MetaName(frame.new_file_name) \in DOMAIN BucketDir(frame.analysis.recommendation)
    /\ frame.temp_file \notin DOMAIN tempDir
    /\ remote # EmptyDir

----------------------------------------------------------------------------
(* Properties of _classify_json_content, checked under SpecContent.        *)

\* A non-empty array whose first element is an object of scalars.
IsListOfFlatRows(v) ==
    v.t = "list" /\ v.kids # <<>> /\ IsFlatObject(v.kids[1])

\* C26: for a non-empty array whose first element is an object with only
\* scalar values _classify_json_content returns 'sql', and that is what
\* JSONAnalyzer recommends for the same file.
C26_FlatRowsAreSql ==
    (json_type # "none" /\ IsListOfFlatRows(cin.raw.doc))
    => (/\ json_type = "sql"
        /\ Classified => cout.recommendation = json_type)

----------------------------------------------------------------------------
(* Properties of file_utils and of POST /upload/, checked under SpecUpload. *)

\* The step is a call of handle_json_upload.
JsonUploadStep == uploads' # uploads /\ last'.kind = "json"

\* The bucket directory of a json_type before and after the step.
JsonDirBefore(kind) == IF kind = "sql" THEN sqlDir ELSE nosqlDir
JsonDirAfter(kind) == IF kind = "sql" THEN sqlDir' ELSE nosqlDir'
OtherKind(kind) == IF kind = "sql" THEN "nosql" ELSE "sql"

\* The step left the uploaded bytes under the local directory, or under the
\* remote folder, of the json_type it returned.
SavedLocally ==
    LET safe == secure_filename(last'.file.filename)
        dir == JsonDirAfter(last'.result.json_type)
    IN  safe \in DOMAIN dir /\ dir[safe] = last'.file.data
SavedRemotely ==
    LET id == <<JsonFolder(last'.result.json_type), secure_filename(last'.file.filename).name>>
    IN  id \in DOMAIN remote' /\ remote'[id] = last'.file.data

\* C27: handle_json_upload raises ValueError for a payload that is no JSON,
\* in every storage mode, and leaves the local directories and the remote
\* store as they were; for valid JSON it returns json_type 'sql' or 'nosql',
\* in mode 'local' or 'both' the file is under the local directory of that
\* type and nowhere else, whatever was uploaded is under the remote folder of
\* that type, and it raises only when the upload fails in mode 'online'.
C27_InvalidJsonRejectedBeforeWrite ==
    [][JsonUploadStep =>
          IF ~JsonLoad(last'.file.data).ok
          THEN /\ last'.raised = "ValueError"
               /\ sqlDir' = sqlDir
               /\ nosqlDir' = nosqlDir
               /\ remote' = remote
          ELSE IF last'.raised # ""
          THEN /\ mode = "online"
               /\ ~last'.remoteOk
               /\ <<sqlDir', nosqlDir', remote'>> = <<sqlDir, nosqlDir, remote>>
          ELSE /\ last'.result.json_type \in {"sql", "nosql"}
               /\ JsonDirAfter(OtherKind(last'.result.json_type))
                     = JsonDirBefore(OtherKind(last'.result.json_type))
               /\ IF mode \in LocalModes
                  THEN SavedLocally /\ last'.result.local_path # NoPath
                  ELSE /\ sqlDir' = sqlDir
                       /\ nosqlDir' = nosqlDir
                       /\ last'.result.local_path = NoPath
               /\ IF last'.result.online_url # NoUrl
                  THEN SavedRemotely
                  ELSE remote' = remote
      ]_vars

\* Text that is no JSON handed to handle_json_upload in mode 'both' with the
\* remote store reachable: ValueError, and nothing written anywhere.
C27_Witness ==
    /\ mode = "both"
    /\ last.kind = "json"
    /\ last.remoteOk
    /\ ~JsonLoad(last.file.data).ok
    /\ last.raised = "ValueError"
    /\ sqlDir = EmptyDir
    /\ nosqlDir = EmptyDir
    /\ remote = EmptyDir

\* C27 as claimed: valid JSON is saved under the directory of its
\* classification in every storage mode.
C27_ValidJsonAlwaysSaved ==
    [][(JsonUploadStep /\ JsonLoad(last'.file.data).ok)
          => /\ last'.raised = ""
             /\ last'.result.json_type \in {"sql", "nosql"}
             /\ SavedLocally \/ SavedRemotely
      ]_vars

\* The copies the entries of a result list name.
ReportedCopies(results) ==
    {results[i].local_path : i \in {j \in 1..Len(results) : results[j].local_path # NoPath}}
    \cup {results[i].online_url : i \in {j \in 1..Len(results) : results[j].online_url # NoUrl}}

\* C28: the list handle_zip_upload returns names every copy the call wrote to
\* local storage or uploaded, and only those, in every storage mode and
\* however the uploads went.
C28_ZipResultsAccountForStoredFiles ==
    (last.kind = "zip" /\ last.raised = "")
    => last.written = ReportedCopies(last.result)

\* C30: POST /upload/ answers 201 whenever the handler has stored the image
\* or video without raising.
C30_StoredUploadAnswers201 ==
    (last.kind = "media" /\ last.raised = "" /\ last.written # {})
    => response.status = 201

----------------------------------------------------------------------------
(* Properties of GET /files, checked under SpecFiles.                      *)

\* The entries of the listing for a stored file name.
EntriesFor(name) ==
    {e \in BagToSet(listing.files) :
        e.type = "json" /\ e.source = "local" /\ e.name = name}

\* C29: GET /files asked after a successful store of a new document in mode
\* 'local' or 'both' has one entry, and only one, for the stored file.
C29_StoredJsonIsListed ==
    (/\ listing.after = uploads
     /\ pc = "idle"
     /\ Stored
     /\ last.result.success
     /\ ~last.result.duplicate
     /\ last.result.local_path # NoPath)
    => (/\ EntriesFor(last.result.stored_name) # {}
        /\ \A e \in EntriesFor(last.result.stored_name) : listing.files[e] = 1)

====
